---- MODULE Spec2Model ----
(***************************************************************************)
(* Verification model of avalanche-cli: the linear backtracking state      *)
(* machine that drives the Subnet-EVM genesis builder, the reachability    *)
(* waiter and per-host bootstrap fan-out of `node create`, the AWS         *)
(* provisioning path with its teardown on partial failure, and the         *)
(* persisted clusters configuration (cluster nodes and key-pair registry). *)
(*                                                                         *)
(* Each subsystem has its own specification over the shared variables:     *)
(*   SpecStateMachine  statemachine + createEvmGenesisBytes loop           *)
(*   Spec              waitForHosts + bootstrap fan-out of createNodes     *)
(*   SpecProvision     preCreateChecks .. createClusterNodeConfig (AWS)    *)
(*   SpecKeyPair       arbitrary updateKeyPairClustersConfig calls         *)
(***************************************************************************)
EXTENDS Integers, Sequences, FiniteSets, TLC

VARIABLES
    \* ---- state machine / genesis builder
    mode,           \* "api": NextState driven directly; "genesis": createEvmGenesisBytes
    stages,         \* the stage list handed to NewStateMachine
    sm,             \* the machine [index, states], or NoMachine
    smErr,          \* error of the last NewStateMachine / NextState call
    lastCall,       \* [dir, from]: direction and index of the last NextState call
    gpc,            \* "new" | "loop" | "built" | "failed" | "nomachine"
    \* ---- waitForHosts and the bootstrap fan-out of createNodes
    networkKind,    \* "Fuji" | "Devnet"
    mainPc,         \* position of createNodes' own goroutine
    spawned,        \* number of goroutines started by the current fan-out loop
    createdWaitGroup, \* counter of waitForHosts' wait group
    wg,             \* counter of the bootstrap wait group
    waiter,         \* host -> "idle" | "run" | "ok" | "failed"
    task,           \* host -> "idle" | "run" | "ok" | "failed"
    stepsStarted,   \* host -> number of bootstrap steps started
    stepsDone,      \* host -> number of bootstrap steps that succeeded
    hostErrors,     \* NodeResults of waitForHosts
    wgResults,      \* NodeResults of the bootstrap fan-out
    printed,        \* status lines printed after the barrier
    devnetSetup,    \* "none" | "ok" | "err": outcome of setupDevnet
    ret,            \* what createNodes returned ("running" while it has not)
    \* ---- provisioning: preCreateChecks .. createClusterNodeConfig (AWS)
    flagsConflict,  \* a flag combination preCreateChecks rejects before the count check
    cmdLineRegion,  \* --region
    numNodes,       \* --num-nodes
    ppc,            \* position of createNodes in the provisioning part
    regions,        \* the regions getAWSCloudConfig returned
    nodeCounts,     \* numNodes as createEC2Instances uses it (flag or prompt)
    calls,          \* cloud and infra collaborator calls made so far
    keyPairName,    \* region -> key-pair name chosen by createEC2Instances
    useExistingKeyPair, \* region -> the key pair is reused
    created,        \* region -> instance IDs that exist after terraform apply
    applyFailed,    \* terraform apply returned an error
    stopAttempted,  \* instance IDs StopInstance was called for
    stopFailed,     \* instance IDs whose StopInstance returned an error
    cloudConfig,    \* the CloudConfigMap createAWSInstances returned
    pret,           \* the error createNodes returned from the provisioning part
    priorClusters,  \* the clusters configuration on disk when the run started
    clustersConfig, \* persisted [Clusters, KeyPair]
    nodeConfigs,    \* persisted node records: instance ID -> NodeConfig
    kpFirst,        \* key-pair name -> certificate path of the first update for it
    kpLast,         \* arguments of the last updateKeyPairClustersConfig call
    \* ---- subnet create wizard (CallCreate / createSubnetConfig)
    wVariant,       \* which source of the wizard runs: "create.go" | "part_001"
    wFlags,         \* the command-line flags and what exists on disk, fixed for the run
    wpc,            \* position of the wizard
    subnetType,     \* "" | "SubnetEvm" | "CustomVM"
    externalGasToken, \* the operator chose a gas token from another blockchain
    useTeleporter,  \* flags.useTeleporter as the wizard updates it
    wPrompted,      \* the stage prompts issued so far
    wLast,          \* [stage, option]: the latest prompt and its answer
    wWritten,       \* what the run wrote: subset of {"genesis", "sidecar"}
    wRet,           \* what the command returned ("running" while it has not)
    \* ---- relayer logs command (logs)
    logFile,        \* the log file: [lines, terminated]
    first,          \* --first
    last,           \* --last
    logLines,       \* the variable logLines
    logOut,         \* the lines printed
    lpc,            \* "idle" | "read" | "first" | "last" | "print" | "done"
    \* ---- security group check (CheckIPInSg)
    sg,             \* the IpPermissions of the security group
    currentIP,      \* the address looked for
    sgPort,         \* the port looked for
    sgResult,       \* what CheckIPInSg returned
    sgpc,           \* "idle" | "ready" | "done"
    \* ---- one host's bootstrap goroutine, call by call
    opLog,          \* host -> the calls made so far, each [op, ok]
    hostRun,        \* host -> "idle" | "run" | "ok" | "failed"
    \* ---- key-pair decision of createEC2Instances for one region
    cloudKeyPairs,  \* the key-pair names that exist in the region
    altName,        \* --alternative-key-pair-name
    newKeyPairName, \* the variable of getNewKeyPairName
    promptCalled,   \* promptKeyPairName was called
    captures,       \* number of CaptureString("Key Pair Name") calls
    checkedNames,   \* names CheckKeyPairExists reported as not existing
    setKeyPair,     \* the arguments of terraformaws.SetKeyPair, or NoKeyPair
    kdUseExisting,  \* useExistingKeyPair[region]
    kdKeyPairName,  \* keyPairName[region]
    tempDir,        \* terraform directory: certificate file name -> key pair it was generated for
    sshDir,         \* SSH directory: certificate file name -> key pair of the certificate
    kdRet,          \* what createEC2Instances returned: [err, sshCertPath]
    kdpc,           \* "idle" | "check" | "getNewKeyPairName" | "decided" | "applied" | "returned"
    \* ---- createNodes: the public-IP map loop over the regions
    ipRegions,      \* the regions, in order
    ipCloudConfig,  \* region -> [InstanceIDs, PublicIPs] as createAWSInstances returned it
    useStaticIP,    \* --use-static-ip
    publicIPMap,    \* instance ID -> public IP
    ipIdx,          \* number of regions the loop has handled
    ipRet,          \* "idle" | "running" | "nil" | "err"
    \* ---- GetSubnetAuthKeys
    walletKey,      \* the wallet key
    controlKeys,    \* the control keys of the subnet
    threshold,      \* the threshold of the subnet
    subnetAuthKeys, \* the keys collected so far, then the returned list
    filteredControlKeys, \* the options of the next prompt
    akPrompts,      \* number of CaptureList calls
    akErr,          \* "running" | "nil" | the error returned
    akpc,           \* "idle" | "start" | "loop" | "returned"
    \* ---- CaptureListDecision
    finalList,      \* the list being edited
    listDecision,   \* the option chosen at the last prompt
    cldRet,         \* the returned triple, once returned
    liveSince,      \* history: for each element, the turn of the Add it has been in the list since (0: not in the list)
    cldTurn,        \* number of prompts so far
    cldpc,          \* "idle" | "loop" | "returned"
    \* ---- deleteSubnet
    subnetFiles,    \* the files of the subnet that exist
    sidecarVM,      \* the VM named in the sidecar
    sidecarLoads,   \* whether LoadSidecar can read and parse the sidecar
    removedFiles,   \* the files removed by the command
    delErr,         \* "running" | "nil" | the error returned
    delpc,          \* "idle" | "load" | "customVM" | "genesis" | "sidecar" | "returned"
    \* ---- deleteSubnet argument
    delSubnetName,  \* args[0]
    \* ---- ensureAdminsHaveBalance
    admins,         \* the admin addresses
    alloc,          \* the genesis allocation
    eabRet          \* "none" | "nil" | "error"

varsSM == <<mode, stages, sm, smErr, lastCall, gpc>>
varsFleet == <<networkKind, mainPc, spawned, createdWaitGroup, wg, waiter, task,
               stepsStarted, stepsDone, hostErrors, wgResults, printed,
               devnetSetup, ret>>
varsProv == <<flagsConflict, cmdLineRegion, numNodes, ppc, regions, nodeCounts,
              calls, keyPairName, useExistingKeyPair, created, applyFailed,
              stopAttempted, stopFailed, cloudConfig, pret, priorClusters,
              clustersConfig, nodeConfigs, kpFirst, kpLast>>
varsWiz == <<wVariant, wFlags, wpc, subnetType, externalGasToken, useTeleporter,
             wPrompted, wLast, wWritten, wRet>>
varsLogs == <<logFile, first, last, logLines, logOut, lpc>>
varsSg == <<sg, currentIP, sgPort, sgResult, sgpc>>
varsHost == <<opLog, hostRun>>
varsKd == <<cloudKeyPairs, altName, newKeyPairName, promptCalled, captures, checkedNames, setKeyPair, kdUseExisting, kdKeyPairName, tempDir, sshDir, kdRet, kdpc>>
varsIP == <<ipRegions, ipCloudConfig, useStaticIP, publicIPMap, ipIdx, ipRet>>
varsAk == <<walletKey, controlKeys, threshold, subnetAuthKeys, filteredControlKeys, akPrompts, akErr, akpc>>
varsCld == <<finalList, listDecision, cldRet, liveSince, cldTurn, cldpc>>
varsDel == <<delSubnetName, subnetFiles, sidecarVM, sidecarLoads, removedFiles, delErr, delpc>>
varsEab == <<admins, alloc, eabRet>>
vars == <<varsSM, varsFleet, varsProv, varsWiz, varsLogs, varsSg, varsHost, varsKd, varsIP, varsAk, varsCld, varsDel, varsEab>>

(***************************************************************************)
(* Bounds of the model.                                                    *)
(***************************************************************************)
MaxStages == 4
NumHosts == 2
MaxNodesPerRegion == 2
MaxLogLines == 3
MaxRanges == 2
MaxPermissions == 2
MaxRenamePrompts == 2
MaxControlKeys == 3
MaxDecisions == 5
MaxLimbs == 2
MaxAdmins == 2

(***************************************************************************)
(* Generic helpers.                                                        *)
(***************************************************************************)
Range(s) == {s[i] : i \in DOMAIN s}

SeqsUpTo(S, n) == UNION {[1..k -> S] : k \in 1..n}

(***************************************************************************)
(* Linear backtracking state machine (pkg/statemachine).                   *)
(***************************************************************************)
Forward == "Forward"
Backward == "Backward"
Directions == {Forward, Backward}

NoMachine == [index |-> -1, states |-> <<>>]

descriptorsState == "descriptors"
feeState == "fee"
airdropState == "airdrop"
precompilesState == "precompiles"

StageNames == {descriptorsState, feeState, airdropState, precompilesState}

\* mutant: the stage list lacks the precompiles stage
GenesisStagesWithoutPrecompiles == <<descriptorsState, feeState, airdropState>>

\* the list createEvmGenesisBytes hands to NewStateMachine
GenesisStages == <<descriptorsState, feeState, airdropState, precompilesState>>

HasDuplicates(list) == Cardinality(Range(list)) # Len(list)

\* NewStateMachine: fails with DuplicateStageError if names repeat
NewStateMachineErr(list) == IF HasDuplicates(list) THEN "DuplicateStageError" ELSE "nil"

\* mutant: a machine is built whether or not names repeat
NewStateMachineUnchecked(list) == [index |-> 0, states |-> list]

NewStateMachine(list) ==
    IF HasDuplicates(list) THEN NoMachine ELSE [index |-> 0, states |-> list]

\* Running: true while index is within [0, len)
Running(m) == m.index >= 0 /\ m.index < Len(m.states)

CurrentState(m) == m.states[m.index + 1]

NextStateErr(m, d) ==
    IF d = Backward /\ m.index = 0 THEN "InvalidBacktrack" ELSE "nil"

\* mutant: Backward decrements the index without looking at it
NextStateUnguarded(m, d) ==
    IF d = Forward THEN [m EXCEPT !.index = @ + 1] ELSE [m EXCEPT !.index = @ - 1]

NextState(m, d) ==
    IF d = Forward
      THEN [m EXCEPT !.index = @ + 1]
      ELSE IF m.index = 0 THEN m ELSE [m EXCEPT !.index = @ - 1]

NoCall == [dir |-> "none", from |-> -1]

StageLists == SeqsUpTo(StageNames, MaxStages)

InitSM ==
    /\ mode \in {"api", "genesis"}
    /\ stages \in (IF mode = "genesis" THEN {GenesisStages} ELSE StageLists)
    /\ sm = NoMachine
    /\ smErr = "nil"
    /\ lastCall = NoCall
    /\ gpc = "new"

\* NewStateMachine(...) and the caller's `if err != nil { return ... }`
Construct ==
    /\ gpc = "new"
    /\ sm' = NewStateMachine(stages)
    /\ smErr' = NewStateMachineErr(stages)
    /\ gpc' = IF NewStateMachineErr(stages) = "nil" THEN "loop" ELSE "nomachine"
    /\ UNCHANGED <<mode, stages, lastCall>>

\* a client issuing NextState(d) on a running machine
CallNextState(d) ==
    /\ mode = "api"
    /\ gpc = "loop"
    /\ Running(sm)
    /\ sm' = NextState(sm, d)
    /\ smErr' = NextStateErr(sm, d)
    /\ lastCall' = [dir |-> d, from |-> sm.index]
    /\ UNCHANGED <<mode, stages, gpc>>

\* one iteration of `for subnetEvmState.Running() { switch CurrentState() ... }`:
\* the stage handler answers (d, handlerErr); an error returns from the builder,
\* otherwise NextState(d) is called and its result is not looked at.
GenesisStep(d, handlerErr) ==
    /\ mode = "genesis"
    /\ gpc = "loop"
    /\ Running(sm)
    /\ IF handlerErr \/ CurrentState(sm) \notin StageNames
         THEN /\ gpc' = "failed"
              /\ UNCHANGED <<sm, smErr, lastCall>>
         ELSE /\ sm' = NextState(sm, d)
              /\ smErr' = NextStateErr(sm, d)
              /\ lastCall' = [dir |-> d, from |-> sm.index]
              /\ gpc' = IF Running(NextState(sm, d)) THEN "loop" ELSE "built"
    /\ UNCHANGED <<mode, stages>>

(***************************************************************************)
(* Node Result Aggregate (models.NodeResults): AddResult appends under the *)
(* aggregate's lock, so one call is one atomic step.                       *)
(***************************************************************************)
AddResult(results, nodeID, err) == Append(results, [NodeID |-> nodeID, Err |-> err])

ResultsLen(results) == Len(results)

GetNodeList(results) == [i \in DOMAIN results |-> results[i].NodeID]

HasNodeIDWithError(results, nodeID) ==
    \E i \in DOMAIN results : results[i].NodeID = nodeID /\ results[i].Err # "nil"

ErrorNodeIDs(results) == {results[i].NodeID : i \in {j \in DOMAIN results : results[j].Err # "nil"}}

GetErrorHostMap(results) ==
    [id \in ErrorNodeIDs(results) |->
        LET latest == CHOOSE i \in DOMAIN results :
                          /\ results[i].NodeID = id /\ results[i].Err # "nil"
                          /\ \A j \in DOMAIN results :
                                (results[j].NodeID = id /\ results[j].Err # "nil") => j <= i
        IN results[latest].Err]

HasErrors(results) == ErrorNodeIDs(results) # {}

(***************************************************************************)
(* createNodes from waitForHosts on: the hosts of the created instances.   *)
(***************************************************************************)
Hosts == 1..NumHosts

\* host.NodeID: one distinct identifier per host
NodeID(h) == h

\* the per-host sequence of the bootstrap goroutine
BootstrapSteps == <<"Connect", "provideStakingCertAndKey", "RunSSHSetupNode",
                    "RunSSHSetupBuildEnv", "RunSSHSetupCLIFromSource">>

Running0 == [kind |-> "running", nodes |-> {}]

InitFleet ==
    /\ networkKind \in {"Fuji", "Devnet"}
    /\ mainPc = "waitForHosts"
    /\ spawned = 0
    /\ createdWaitGroup = 0
    /\ wg = 0
    /\ waiter = [h \in Hosts |-> "idle"]
    /\ task = [h \in Hosts |-> "idle"]
    /\ stepsStarted = [h \in Hosts |-> 0]
    /\ stepsDone = [h \in Hosts |-> 0]
    /\ hostErrors = <<>>
    /\ wgResults = <<>>
    /\ printed = <<>>
    /\ devnetSetup = "none"
    /\ ret = Running0

\* waitForHosts: createdWaitGroup.Add(1); go func(...)
WaitSpawn ==
    /\ mainPc = "waitForHosts"
    /\ spawned < NumHosts
    /\ spawned' = spawned + 1
    /\ createdWaitGroup' = createdWaitGroup + 1
    /\ waiter' = [waiter EXCEPT ![spawned + 1] = "run"]
    /\ UNCHANGED <<networkKind, mainPc, wg, task, stepsStarted, stepsDone,
                   hostErrors, wgResults, printed, devnetSetup, ret>>

\* the waiter goroutine: WaitForSSHShell, AddResult on error, deferred Done
WaitForSSHShell(h, reachable) ==
    /\ waiter[h] = "run"
    /\ waiter' = [waiter EXCEPT ![h] = IF reachable THEN "ok" ELSE "failed"]
    /\ hostErrors' = IF reachable THEN hostErrors
                     ELSE AddResult(hostErrors, NodeID(h), "WaitForSSHShell")
    /\ createdWaitGroup' = createdWaitGroup - 1
    /\ UNCHANGED <<networkKind, mainPc, spawned, wg, task, stepsStarted, stepsDone,
                   wgResults, printed, devnetSetup, ret>>

\* mutant: the failed hosts are reported but the bootstrap goes on
WaitJoinIgnoringFailures ==
    /\ mainPc = "waitForHosts"
    /\ spawned = NumHosts
    /\ createdWaitGroup = 0
    /\ mainPc' = "bootstrap"
    /\ spawned' = 0
    /\ UNCHANGED <<networkKind, createdWaitGroup, wg, waiter, task, stepsStarted,
                   stepsDone, hostErrors, wgResults, printed, devnetSetup, ret>>

\* mutant: the aggregate is read once the loop has started every task,
\* without waiting for the wait group
WaitJoinWithoutWait ==
    /\ mainPc = "waitForHosts"
    /\ spawned = NumHosts
    /\ IF ResultsLen(hostErrors) > 0
         THEN /\ mainPc' = "done"
              /\ ret' = [kind |-> "failed to provision node(s)",
                         nodes |-> Range(GetNodeList(hostErrors))]
         ELSE /\ mainPc' = "bootstrap"
              /\ ret' = ret
    /\ spawned' = 0
    /\ UNCHANGED <<networkKind, createdWaitGroup, wg, waiter, task, stepsStarted,
                   stepsDone, hostErrors, wgResults, printed, devnetSetup>>

\* createdWaitGroup.Wait() returns; createNodes aborts if any host failed,
\* otherwise goes on to the bootstrap fan-out
WaitJoin ==
    /\ mainPc = "waitForHosts"
    /\ spawned = NumHosts
    /\ createdWaitGroup = 0
    /\ IF ResultsLen(hostErrors) > 0
         THEN /\ mainPc' = "done"
              /\ ret' = [kind |-> "failed to provision node(s)",
                         nodes |-> Range(GetNodeList(hostErrors))]
         ELSE /\ mainPc' = "bootstrap"
              /\ ret' = ret
    /\ spawned' = 0
    /\ UNCHANGED <<networkKind, createdWaitGroup, wg, waiter, task, stepsStarted,
                   stepsDone, hostErrors, wgResults, printed, devnetSetup>>

\* bootstrap fan-out: wg.Add(1); go func(...)
BootstrapSpawn ==
    /\ mainPc = "bootstrap"
    /\ spawned < NumHosts
    /\ spawned' = spawned + 1
    /\ wg' = wg + 1
    /\ task' = [task EXCEPT ![spawned + 1] = "run"]
    /\ UNCHANGED <<networkKind, mainPc, createdWaitGroup, waiter, stepsStarted,
                   stepsDone, hostErrors, wgResults, printed, devnetSetup, ret>>

\* mutant: a failing step returns without AddResult
BootstrapStepWithoutAddResult(h, ok) ==
    /\ task[h] = "run"
    /\ stepsStarted' = [stepsStarted EXCEPT ![h] = @ + 1]
    /\ wgResults' = wgResults
    /\ IF ok
         THEN /\ stepsDone' = [stepsDone EXCEPT ![h] = @ + 1]
              /\ IF stepsDone[h] + 1 = Len(BootstrapSteps)
                   THEN task' = [task EXCEPT ![h] = "ok"] /\ wg' = wg - 1
                   ELSE UNCHANGED <<task, wg>>
         ELSE /\ task' = [task EXCEPT ![h] = "failed"]
              /\ wg' = wg - 1
              /\ stepsDone' = stepsDone
    /\ UNCHANGED <<networkKind, mainPc, spawned, createdWaitGroup, waiter,
                   hostErrors, printed, devnetSetup, ret>>

\* mutant: a recorded failure of any host stops the steps of all hosts
BootstrapStepAbortingSiblings(h, ok) ==
    /\ task[h] = "run"
    /\ wgResults = <<>>
    /\ stepsStarted' = [stepsStarted EXCEPT ![h] = @ + 1]
    /\ IF ok
         THEN /\ stepsDone' = [stepsDone EXCEPT ![h] = @ + 1]
              /\ wgResults' = wgResults
              /\ IF stepsDone[h] + 1 = Len(BootstrapSteps)
                   THEN task' = [task EXCEPT ![h] = "ok"] /\ wg' = wg - 1
                   ELSE UNCHANGED <<task, wg>>
         ELSE /\ wgResults' = AddResult(wgResults, NodeID(h), BootstrapSteps[stepsDone[h] + 1])
              /\ task' = [task EXCEPT ![h] = "failed"]
              /\ wg' = wg - 1
              /\ stepsDone' = stepsDone
    /\ UNCHANGED <<networkKind, mainPc, spawned, createdWaitGroup, waiter,
                   hostErrors, printed, devnetSetup, ret>>

\* the bootstrap goroutine runs its next step: on error AddResult and return,
\* after the last step return; wg.Done is deferred
BootstrapStep(h, ok) ==
    /\ task[h] = "run"
    /\ stepsStarted' = [stepsStarted EXCEPT ![h] = @ + 1]
    /\ IF ok
         THEN /\ stepsDone' = [stepsDone EXCEPT ![h] = @ + 1]
              /\ wgResults' = wgResults
              /\ IF stepsDone[h] + 1 = Len(BootstrapSteps)
                   THEN task' = [task EXCEPT ![h] = "ok"] /\ wg' = wg - 1
                   ELSE UNCHANGED <<task, wg>>
         ELSE /\ wgResults' = AddResult(wgResults, NodeID(h), BootstrapSteps[stepsDone[h] + 1])
              /\ task' = [task EXCEPT ![h] = "failed"]
              /\ wg' = wg - 1
              /\ stepsDone' = stepsDone
    /\ UNCHANGED <<networkKind, mainPc, spawned, createdWaitGroup, waiter,
                   hostErrors, printed, devnetSetup, ret>>

\* the status line of one host
StatusLine(results, h) ==
    IF HasNodeIDWithError(results, NodeID(h))
      THEN [node |-> NodeID(h), status |-> "ERROR", err |-> GetErrorHostMap(results)[NodeID(h)]]
      ELSE [node |-> NodeID(h), status |-> "CREATED", err |-> "nil"]

\* wg.Wait() returns; status lines; setupDevnet on a Devnet; the return value
ReportAndReturn(devnetOK) ==
    /\ mainPc = "bootstrap"
    /\ spawned = NumHosts
    /\ wg = 0
    /\ printed' = [h \in Hosts |-> StatusLine(wgResults, h)]
    /\ devnetSetup' = IF networkKind = "Devnet"
                        THEN (IF devnetOK THEN "ok" ELSE "err") ELSE "none"
    /\ ret' = IF networkKind = "Devnet" /\ ~devnetOK
                THEN [kind |-> "setupDevnet", nodes |-> {}]
              ELSE IF HasErrors(wgResults)
                THEN [kind |-> "failed to deploy node(s)",
                      nodes |-> DOMAIN GetErrorHostMap(wgResults)]
              ELSE [kind |-> "nil", nodes |-> {}]
    /\ mainPc' = "done"
    /\ UNCHANGED <<networkKind, spawned, createdWaitGroup, wg, waiter, task,
                   stepsStarted, stepsDone, hostErrors, wgResults>>

(***************************************************************************)
(* Persisted clusters configuration: cluster nodes and key-pair registry.  *)
(***************************************************************************)
EmptyMap == [x \in {} |-> x]

\* mutant: the registered path is replaced by the one of the latest call
updateKeyPairOverwriting(cfg, cc) ==
    [cfg EXCEPT !.KeyPair = (cc.KeyPair :> cc.CertFilePath) @@ @]

\* load (or start empty), register the key pair unless present, write back
updateKeyPairClustersConfig(cfg, cc) ==
    [cfg EXCEPT !.KeyPair =
        IF cc.KeyPair \in DOMAIN @ THEN @ ELSE (cc.KeyPair :> cc.CertFilePath) @@ @]

\* mutant: the node list of the cluster is replaced, not appended to
addNodeReplacingList(cfg, network, nodeID, clusterName) ==
    [cfg EXCEPT !.Clusters =
        (clusterName :> [Network |-> network, Nodes |-> <<nodeID>>]) @@ @]

\* load (or start empty), create the cluster entry if absent, append the node
addNodeToClustersConfig(cfg, network, nodeID, clusterName) ==
    LET nodes == IF clusterName \in DOMAIN cfg.Clusters
                   THEN cfg.Clusters[clusterName].Nodes ELSE <<>>
    IN [cfg EXCEPT !.Clusters =
          (clusterName :> [Network |-> network, Nodes |-> Append(nodes, nodeID)]) @@ @]

\* the node record createClusterNodeConfig writes for instance i of a region
NodeConfigOf(cc, i, cloudService) ==
    [NodeID |-> cc.InstanceIDs[i],
     Region |-> cc.Region,
     AMI |-> cc.ImageID,
     KeyPair |-> cc.KeyPair,
     CertPath |-> cc.CertFilePath,
     SecurityGroup |-> cc.SecurityGroup,
     ElasticIP |-> IF Len(cc.PublicIPs) > 0 THEN cc.PublicIPs[i] ELSE <<"none">>,
     CloudService |-> cloudService]

\* the inner loop of createClusterNodeConfig over the instances of one region,
\* from instance i on; st = [cfg, nodes] is what is on disk
RECURSIVE RegisterInstancesFrom(_, _, _, _, _, _)
RegisterInstancesFrom(st, cc, i, network, clusterName, cloudService) ==
    IF i > Len(cc.InstanceIDs) THEN st
    ELSE RegisterInstancesFrom(
            [nodes |-> (cc.InstanceIDs[i] :> NodeConfigOf(cc, i, cloudService)) @@ st.nodes,
             cfg |-> updateKeyPairClustersConfig(
                        addNodeToClustersConfig(st.cfg, network, cc.InstanceIDs[i], clusterName),
                        cc)],
            cc, i + 1, network, clusterName, cloudService)

\* createClusterNodeConfig: the outer loop ranges over a Go map, so the order
\* of the regions is any order
RECURSIVE createClusterNodeConfig(_, _, _, _, _, _)
createClusterNodeConfig(st, cloudConfigMap, order, network, clusterName, cloudService) ==
    IF order = <<>> THEN st
    ELSE createClusterNodeConfig(
            RegisterInstancesFrom(st, cloudConfigMap[Head(order)], 1, network,
                                  clusterName, cloudService),
            cloudConfigMap, Tail(order), network, clusterName, cloudService)

(***************************************************************************)
(* createNodes up to createClusterNodeConfig, on AWS.                      *)
(***************************************************************************)
Regions == {"us-east-1", "us-west-2"}

ClusterName == "mycluster"

NoDuplicates(list) == Cardinality(Range(list)) = Len(list)

RegionLists ==
    {l \in UNION {[1..k -> Regions] : k \in 0..Cardinality(Regions)} : NoDuplicates(l)}

CountLists == UNION {[1..k -> 1..MaxNodesPerRegion] : k \in 0..Cardinality(Regions)}

RegionOrders(S) == {l \in [1..Cardinality(S) -> S] : Range(l) = S}

\* usr.Username + "-" + region + suffix
Prefix(r) == <<"prefix", r>>

\* a name the rename prompt returns: one that is not a key pair of the region
RenamedKeyPair(r) == <<"renamed", r>>

\* app.GetSSHCertFilePath(instanceConf[region].CertName)
SSHCertFilePath(r) == <<"ssh", r>>

SecurityGroupName(r) == <<"sg", r>>

InstanceID(r, i) == <<r, i>>

KeyPairCases == {"neither", "localOnly", "both", "cloudOnly"}

Err(kind) == [kind |-> kind, nodes |-> {}]

NotReturned == Err("running")

NoUpdate == [name |-> <<"none">>, path |-> <<"none">>]

EmptyClustersConfig == [Clusters |-> EmptyMap, KeyPair |-> EmptyMap]

\* the one instance an earlier run of the command created for this cluster
OldInstance == InstanceID("us-east-1", 0)

OldCloudConfig ==
    [InstanceIDs |-> <<OldInstance>>,
     PublicIPs |-> <<>>,
     Region |-> "us-east-1",
     KeyPair |-> Prefix("us-east-1"),
     SecurityGroup |-> SecurityGroupName("us-east-1"),
     CertFilePath |-> SSHCertFilePath("us-east-1"),
     ImageID |-> <<"ami", "us-east-1">>]

NothingOnDisk == [cfg |-> EmptyClustersConfig, nodes |-> EmptyMap]

\* what is on disk when the command starts: nothing, or what an earlier run
\* for the same cluster name wrote
PriorDisks ==
    {NothingOnDisk,
     createClusterNodeConfig(NothingOnDisk, "us-east-1" :> OldCloudConfig,
                             <<"us-east-1">>, "Fuji", ClusterName, "aws")}

InitProv ==
    /\ flagsConflict \in BOOLEAN
    /\ cmdLineRegion \in RegionLists
    /\ numNodes \in CountLists
    /\ ppc = "preCreateChecks"
    /\ regions = <<>>
    /\ nodeCounts = <<>>
    /\ calls = {}
    /\ keyPairName = EmptyMap
    /\ useExistingKeyPair = EmptyMap
    /\ created = EmptyMap
    /\ applyFailed = FALSE
    /\ stopAttempted = {}
    /\ stopFailed = {}
    /\ cloudConfig = EmptyMap
    /\ pret = NotReturned
    /\ \E disk \in PriorDisks :
         /\ priorClusters = disk.cfg
         /\ clustersConfig = disk.cfg
         /\ nodeConfigs = disk.nodes
    /\ kpFirst = EmptyMap
    /\ kpLast = NoUpdate

IdleProv ==
    /\ flagsConflict = FALSE /\ cmdLineRegion = <<>> /\ numNodes = <<>>
    /\ ppc = "idle" /\ regions = <<>> /\ nodeCounts = <<>> /\ calls = {}
    /\ keyPairName = EmptyMap /\ useExistingKeyPair = EmptyMap
    /\ created = EmptyMap /\ applyFailed = FALSE
    /\ stopAttempted = {} /\ stopFailed = {} /\ cloudConfig = EmptyMap
    /\ pret = NotReturned /\ priorClusters = EmptyClustersConfig
    /\ clustersConfig = EmptyClustersConfig /\ nodeConfigs = EmptyMap
    /\ kpFirst = EmptyMap /\ kpLast = NoUpdate

\* createNodes returns err from the provisioning part
ReturnErr(e) == ppc' = "done" /\ pret' = e

\* preCreateChecks, then createNodes up to user.Current(): setupOK is the
\* outcome of the network/cloud-service prompts and the terraform checks
PreCreateChecks(setupOK) ==
    /\ ppc = "preCreateChecks"
    /\ IF flagsConflict
         THEN ReturnErr(Err("flag conflict")) /\ calls' = calls
       ELSE IF Len(cmdLineRegion) # Len(numNodes)
         THEN /\ ReturnErr(Err("number of regions and number of nodes must be equal"))
              /\ calls' = calls
       ELSE /\ calls' = calls \cup {"terraform.CheckIsInstalled"}
            /\ IF setupOK THEN ppc' = "getAWSCloudConfig" /\ pret' = pret
                          ELSE ReturnErr(Err("setup"))
    /\ UNCHANGED <<flagsConflict, cmdLineRegion, numNodes, regions, nodeCounts,
                   keyPairName, useExistingKeyPair, created, applyFailed,
                   stopAttempted, stopFailed, cloudConfig, priorClusters,
                   clustersConfig, nodeConfigs, kpFirst, kpLast>>

\* getAWSCloudConfig: with no region given the operator is prompted; only the
\* custom answer is stored in regions. Then a session and the image lookup
\* per region.
GetAWSCloudConfig(choice, customList, cloudOK) ==
    /\ ppc = "getAWSCloudConfig"
    /\ LET prompted == Len(cmdLineRegion) = 0
           rs == IF ~prompted THEN cmdLineRegion
                 ELSE IF choice = "custom" THEN customList ELSE <<>>
       IN IF prompted /\ choice = "promptErr"
            THEN ReturnErr(Err("prompt")) /\ UNCHANGED <<regions, calls>>
          ELSE IF rs # <<>> /\ ~cloudOK
            THEN /\ ReturnErr(Err("cloud"))
                 /\ calls' = calls \cup {"session.NewSession", "GetUbuntuAMIID"}
                 /\ regions' = regions
          ELSE /\ regions' = rs
               /\ calls' = calls \cup (IF rs # <<>>
                                         THEN {"session.NewSession", "GetUbuntuAMIID"}
                                         ELSE {})
               /\ ppc' = "createAWSInstances"
               /\ pret' = pret
    /\ UNCHANGED <<flagsConflict, cmdLineRegion, numNodes, nodeCounts,
                   keyPairName, useExistingKeyPair, created, applyFailed,
                   stopAttempted, stopFailed, cloudConfig, priorClusters,
                   clustersConfig, nodeConfigs, kpFirst, kpLast>>

ProvUnchangedInputs ==
    UNCHANGED <<flagsConflict, cmdLineRegion, numNodes, priorClusters, kpFirst, kpLast>>

\* the key-pair name SetKeyPair/SetupInstances get for a region
KeyPairNameFor(r, kpCase) ==
    IF kpCase \in {"localOnly", "cloudOnly"} THEN RenamedKeyPair(r) ELSE Prefix(r)

\* createAWSInstances up to the apply: InitConf, then createEC2Instances
\* lines 171-272. entered is the answer to the node-count prompt, kpCase the
\* key-pair situation found in each region, collabOK the outcome of the
\* collaborators between the mismatch check and the apply.
CreateEC2Instances(initOK, entered, kpCase, collabOK) ==
    /\ ppc = "createAWSInstances"
    /\ IF ~initOK
         THEN \* InitConf failed: an empty cloud config and a nil error
              /\ calls' = calls \cup {"terraform.InitConf"}
              /\ cloudConfig' = EmptyMap
              /\ ppc' = "createClusterNodeConfig"
              /\ UNCHANGED <<pret, nodeCounts, keyPairName, useExistingKeyPair>>
         ELSE LET counts == IF Len(numNodes) = 0 THEN entered ELSE numNodes
                  base == calls \cup {"terraform.InitConf", "SetCloudCredentials"}
              IN IF Len(counts) # Len(regions)
                   THEN /\ ReturnErr(Err("number of nodes and regions should be same"))
                        /\ calls' = base
                        /\ UNCHANGED <<cloudConfig, nodeCounts, keyPairName,
                                       useExistingKeyPair>>
                 ELSE IF ~collabOK
                   THEN /\ ReturnErr(Err("collaborator"))
                        /\ calls' = base \cup {"getIPAddress"}
                        /\ UNCHANGED <<cloudConfig, nodeCounts, keyPairName,
                                       useExistingKeyPair>>
                 ELSE /\ calls' = base \cup {"getIPAddress", "CheckKeyPairExists",
                                              "CheckSecurityGroupExists",
                                              "terraform.SaveConf"}
                      /\ nodeCounts' = counts
                      /\ keyPairName' =
                            [r \in Range(regions) |-> KeyPairNameFor(r, kpCase[r])]
                      /\ useExistingKeyPair' =
                            [r \in Range(regions) |-> kpCase[r] = "both"]
                      /\ ppc' = "RunTerraform"
                      /\ UNCHANGED <<pret, cloudConfig>>
    /\ UNCHANGED <<regions, created, applyFailed, stopAttempted, stopFailed,
                   clustersConfig, nodeConfigs>>
    /\ ProvUnchangedInputs

RegionIndex(r) == CHOOSE i \in 1..Len(regions) : regions[i] = r

InstancesOf(r, n) == [i \in 1..n |-> InstanceID(r, i)]

CloudConfigOf(r, ids) ==
    [InstanceIDs |-> ids,
     PublicIPs |-> [i \in 1..Len(ids) |-> <<"eip", r, i>>],
     Region |-> r,
     KeyPair |-> keyPairName[r],
     SecurityGroup |-> SecurityGroupName(r),
     CertFilePath |-> SSHCertFilePath(r),
     ImageID |-> <<"ami", r>>]

\* RunTerraform succeeds; createEC2Instances 277-292 and createAWSInstances
\* 364-376 build the cloud config
RunTerraformOK ==
    /\ ppc = "RunTerraform"
    /\ calls' = calls \cup {"terraform apply", "terraform output"}
    /\ created' = [r \in Range(regions) |-> InstancesOf(r, nodeCounts[RegionIndex(r)])]
    /\ cloudConfig' = [r \in Range(regions) |-> CloudConfigOf(r, created'[r])]
    /\ ppc' = "createClusterNodeConfig"
    /\ UNCHANGED <<regions, nodeCounts, keyPairName, useExistingKeyPair, applyFailed,
                   stopAttempted, stopFailed, pret, clustersConfig, nodeConfigs>>
    /\ ProvUnchangedInputs

\* RunTerraform succeeds but addCertToSSH (createEC2Instances 278-286) fails:
\* in a region whose key pair was renamed the certificate was generated under
\* the new name while the default-named file is the one looked for. The error
\* is not ErrCreatingAWSNode, so createAWSInstances returns it with the
\* instances left running.
AddCertToSSHFail ==
    /\ ppc = "RunTerraform"
    /\ \E r \in Range(regions) : ~useExistingKeyPair[r] /\ keyPairName[r] = RenamedKeyPair(r)
    /\ calls' = calls \cup {"terraform apply", "terraform output"}
    /\ created' = [r \in Range(regions) |-> InstancesOf(r, nodeCounts[RegionIndex(r)])]
    /\ ReturnErr(Err("addCertToSSH"))
    /\ UNCHANGED <<regions, nodeCounts, keyPairName, useExistingKeyPair, applyFailed,
                   stopAttempted, stopFailed, cloudConfig, clustersConfig, nodeConfigs>>
    /\ ProvUnchangedInputs

\* RunTerraform fails after partial[r] instances exist in region r
RunTerraformFail(partial) ==
    /\ ppc = "RunTerraform"
    /\ \A r \in Range(regions) : partial[r] <= nodeCounts[RegionIndex(r)]
    /\ calls' = calls \cup {"terraform apply"}
    /\ created' = [r \in Range(regions) |-> InstancesOf(r, partial[r])]
    /\ applyFailed' = TRUE
    /\ ppc' = "teardown"
    /\ UNCHANGED <<regions, nodeCounts, keyPairName, useExistingKeyPair, cloudConfig,
                   stopAttempted, stopFailed, pret, clustersConfig, nodeConfigs>>
    /\ ProvUnchangedInputs

AllCreated == UNION {Range(created[r]) : r \in DOMAIN created}

\* createAWSInstances 329-362. GetInstanceIDs returns a map keyed by region and
\* slices the printed list, which fails on an empty one; GetInstanceRegions
\* reads an output SetOutput does not define, so it errs, or (regionsOutOK)
\* yields one entry per instance. failing are the instances whose stop fails.
Teardown(idsOK, regionsOutOK, failing) ==
    /\ ppc = "teardown"
    /\ calls' = calls \cup {"terraform output"}
    /\ failing \subseteq AllCreated
    /\ LET instanceIDs == created
           instanceRegionLen == Cardinality(AllCreated)
       IN IF ~idsOK
            THEN ReturnErr(Err("terraform output")) /\ UNCHANGED <<stopAttempted, stopFailed>>
          ELSE IF \E r \in DOMAIN created : created[r] = <<>>
            THEN /\ ppc' = "panic" /\ pret' = Err("slice bounds out of range")
                 /\ UNCHANGED <<stopAttempted, stopFailed>>
          ELSE IF ~regionsOutOK
            THEN ReturnErr(Err("terraform output")) /\ UNCHANGED <<stopAttempted, stopFailed>>
          ELSE IF Cardinality(DOMAIN instanceIDs) # instanceRegionLen
            THEN /\ ReturnErr(Err("number of instance IDs does not match number of instance regions"))
                 /\ UNCHANGED <<stopAttempted, stopFailed>>
          ELSE /\ stopAttempted' = AllCreated
               /\ stopFailed' = failing
               /\ IF failing # {}
                    THEN ReturnErr([kind |-> "failed to stop node(s)", nodes |-> failing])
                    ELSE ReturnErr(Err("error creating AWS node"))
    /\ UNCHANGED <<regions, nodeCounts, keyPairName, useExistingKeyPair, created,
                   applyFailed, cloudConfig, clustersConfig, nodeConfigs>>
    /\ ProvUnchangedInputs

\* createNodes line 214, the regions taken in the order the map yields them
CreateClusterNodeConfig(order) ==
    /\ ppc = "createClusterNodeConfig"
    /\ order \in RegionOrders(DOMAIN cloudConfig)
    /\ LET st == createClusterNodeConfig(
                    [cfg |-> clustersConfig, nodes |-> nodeConfigs],
                    cloudConfig, order, "Fuji", ClusterName, "aws")
       IN /\ clustersConfig' = st.cfg
          /\ nodeConfigs' = st.nodes
    /\ ppc' = "provisioned"
    /\ UNCHANGED <<regions, nodeCounts, calls, keyPairName, useExistingKeyPair, created,
                   applyFailed, stopAttempted, stopFailed, cloudConfig, pret>>
    /\ ProvUnchangedInputs

(***************************************************************************)
(* The key-pair registry under arbitrary calls of its update function.     *)
(***************************************************************************)
KeyPairNames == {Prefix(r) : r \in Regions} \cup {RenamedKeyPair("us-east-1")}

CertPaths == {SSHCertFilePath(r) : r \in Regions} \cup {<<"ssh", "renamed">>}

\* one call of updateKeyPairClustersConfig; kpFirst remembers the path of the
\* first call for each name, kpLast the arguments of the latest call
UpdateKeyPair(name, path) ==
    /\ ppc = "idle"
    /\ clustersConfig' =
          updateKeyPairClustersConfig(clustersConfig, [KeyPair |-> name, CertFilePath |-> path])
    /\ kpFirst' = IF name \in DOMAIN kpFirst THEN kpFirst ELSE (name :> path) @@ kpFirst
    /\ kpLast' = [name |-> name, path |-> path]
    /\ UNCHANGED <<flagsConflict, cmdLineRegion, numNodes, ppc, regions, nodeCounts,
                   calls, keyPairName, useExistingKeyPair, created, applyFailed,
                   stopAttempted, stopFailed, cloudConfig, pret, priorClusters,
                   nodeConfigs>>

(***************************************************************************)
(* The subnet create wizard: CallCreate of cmd/subnetcmd/create.go and     *)
(* createSubnetConfig of the second copy of that command. The two differ   *)
(* in the fee-manager prompt only.                                         *)
(***************************************************************************)
WizardVariants == {"create.go", "part_001"}

explainOption == "Explain the difference"

PromptFailed == "promptErr"

\* a prompt nested in a stage (token symbol, allocation, allow list, fee
\* values) returned an error
SubPromptFailed == "subPromptErr"

WizardFlags ==
    [ForceCreate : BOOLEAN,
     genesisExists : BOOLEAN,
     vm : {"none", "evm", "custom", "both"},
     genesisFile : {"none", "evm", "other"},
     EvmDefaults : BOOLEAN,
     chainIDGiven : BOOLEAN,
     teleporter : {"unset", "true", "false"},
     useWarp : BOOLEAN,
     invalidName : BOOLEAN]

NoPrompt == [stage |-> "none", option |-> "none"]

InitWiz ==
    /\ wVariant \in WizardVariants
    /\ wFlags \in WizardFlags
    /\ wpc = "check"
    /\ subnetType = ""
    /\ externalGasToken = FALSE
    /\ useTeleporter = (wFlags.teleporter = "true")
    /\ wPrompted = {}
    /\ wLast = NoPrompt
    /\ wWritten = {}
    /\ wRet = "running"

IdleWiz ==
    /\ wVariant = "create.go"
    /\ wFlags = [ForceCreate |-> FALSE, genesisExists |-> FALSE, vm |-> "none",
                 genesisFile |-> "none", EvmDefaults |-> FALSE, chainIDGiven |-> FALSE,
                 teleporter |-> "unset", useWarp |-> TRUE, invalidName |-> FALSE]
    /\ wpc = "idle"
    /\ subnetType = ""
    /\ externalGasToken = FALSE
    /\ useTeleporter = FALSE
    /\ wPrompted = {}
    /\ wLast = NoPrompt
    /\ wWritten = {}
    /\ wRet = "running"

\* the command returns e
WReturn(e) == wpc' = "returned" /\ wRet' = e

\* app.Prompt.Capture... for a stage was called and answered with option
Asked(stage, option) ==
    /\ wPrompted' = wPrompted \cup {stage}
    /\ wLast' = [stage |-> stage, option |-> option]

\* mutant: an existing configuration is never a reason to stop
ConfigurationNeverBlocks(flags) == FALSE

\* app.GenesisExists(subnetName) && !flags.ForceCreate
ConfigurationBlocks(flags) == flags.genesisExists /\ ~flags.ForceCreate

\* getVMFromFlag
getVMFromFlag(flags) ==
    IF flags.vm = "evm" THEN "SubnetEvm" ELSE IF flags.vm = "custom" THEN "CustomVM" ELSE ""

\* subnetType == models.SubnetEvm && flags.GenesisFile == ""
EvmWithoutGenesis == subnetType = "SubnetEvm" /\ wFlags.genesisFile = "none"

\* the checks before the first prompt
WizStart ==
    /\ wpc = "check"
    /\ IF ConfigurationBlocks(wFlags)
         THEN WReturn("configuration already exists") /\ subnetType' = subnetType
       ELSE IF wFlags.invalidName
         THEN WReturn("subnet name is invalid") /\ subnetType' = subnetType
       ELSE IF wFlags.vm = "both"
         THEN WReturn("too many VMs selected") /\ subnetType' = subnetType
       ELSE IF wFlags.genesisFile # "none" /\ (wFlags.chainIDGiven \/ wFlags.EvmDefaults)
         THEN WReturn("errMutuallyVMConfigOptions") /\ subnetType' = subnetType
       ELSE /\ subnetType' = getVMFromFlag(wFlags)
            /\ wpc' = IF getVMFromFlag(wFlags) = "" THEN "vm" ELSE "version"
            /\ wRet' = wRet
    /\ UNCHANGED <<wVariant, wFlags, externalGasToken, useTeleporter, wPrompted, wLast,
                   wWritten>>

\* the VM prompt
PromptVM(option) ==
    /\ wpc = "vm"
    /\ Asked("vm", option)
    /\ IF option = PromptFailed
         THEN WReturn("prompt error") /\ subnetType' = subnetType
       ELSE IF option = explainOption
         THEN UNCHANGED <<wpc, wRet, subnetType>>
       ELSE /\ subnetType' = IF option = "Subnet-EVM" THEN "SubnetEvm" ELSE "CustomVM"
            /\ wpc' = "version"
            /\ wRet' = wRet
    /\ UNCHANGED <<wVariant, wFlags, externalGasToken, useTeleporter, wWritten>>

\* version validation, genesis file format and vm.GetVMVersion
WizVersion(collabOK) ==
    /\ wpc = "version"
    /\ IF ~collabOK
         THEN WReturn("collaborator error")
       ELSE IF subnetType = "SubnetEvm" /\ wFlags.genesisFile = "other"
         THEN WReturn("provided genesis file has no proper Subnet-EVM format")
       ELSE /\ wpc' = IF EvmWithoutGenesis
                        THEN (IF wFlags.chainIDGiven THEN "gasToken" ELSE "chainID")
                        ELSE "interop"
            /\ wRet' = wRet
    /\ UNCHANGED <<wVariant, wFlags, subnetType, externalGasToken, useTeleporter,
                   wPrompted, wLast, wWritten>>

\* app.Prompt.CaptureUint64("Chain ID")
PromptChainID(option) ==
    /\ wpc = "chainID"
    /\ Asked("chainID", option)
    /\ IF option = PromptFailed
         THEN WReturn("prompt error")
         ELSE wpc' = "gasToken" /\ wRet' = wRet
    /\ UNCHANGED <<wVariant, wFlags, subnetType, externalGasToken, useTeleporter, wWritten>>


\* mutant: the failure of a nested prompt is ignored and the stage goes on
StagePromptIgnoringNested(stage, option, subOK, explainContinues, next) ==
    /\ wpc = stage
    /\ IF option = PromptFailed
         THEN Asked(stage, option) /\ WReturn("prompt error")
       ELSE IF option = explainOption
         THEN /\ Asked(stage, option)
              /\ wpc' = IF explainContinues THEN stage ELSE next
              /\ wRet' = wRet
       ELSE /\ Asked(stage, IF subOK THEN option ELSE SubPromptFailed)
            /\ wpc' = next
            /\ wRet' = wRet

\* a stage prompt of the form `for { option := CaptureList(...); switch ... }`:
\* a prompt error returns it, explains re-prompts when the switch has an explain
\* case that continues, a nested prompt error returns it, anything else goes on
StagePrompt(stage, option, subOK, explainContinues, next) ==
    /\ wpc = stage
    /\ IF option = PromptFailed
         THEN Asked(stage, option) /\ WReturn("prompt error")
       ELSE IF option = explainOption
         THEN /\ Asked(stage, option)
              /\ wpc' = IF explainContinues THEN stage ELSE next
              /\ wRet' = wRet
       ELSE IF ~subOK
         THEN Asked(stage, SubPromptFailed) /\ WReturn("prompt error")
       ELSE /\ Asked(stage, option)
            /\ wpc' = next
            /\ wRet' = wRet

\* gas token: native (token symbol, allocation, minting prompts follow) or a
\* token from another blockchain
PromptGasToken(option, subOK) ==
    /\ StagePrompt("gasToken", option, subOK \/ option # "native", TRUE, "feeConfig")
    /\ externalGasToken' = (option = "external")
    /\ UNCHANGED <<wVariant, wFlags, subnetType, useTeleporter, wWritten>>

\* fee configuration: a preset, or customize (vm.CustomizeFeeConfig prompts)
PromptFeeConfig(option, subOK) ==
    /\ StagePrompt("feeConfig", option, subOK \/ option # "customize", TRUE, "feeManager")
    /\ UNCHANGED <<wVariant, wFlags, subnetType, externalGasToken, useTeleporter, wWritten>>

\* create.go offers the explain option in the fee-manager prompt but its switch
\* has no case for it; the other copy has the case and continues
FeeManagerExplainContinues(variant) == variant = "part_001"

\* fee manager: keep, or changeable (vm.GenerateAllowList prompts)
PromptFeeManager(option, subOK) ==
    /\ StagePrompt("feeManager", option, subOK \/ option # "change",
                   FeeManagerExplainContinues(wVariant), "rewardManager")
    /\ UNCHANGED <<wVariant, wFlags, subnetType, externalGasToken, useTeleporter, wWritten>>

\* reward manager: burn, or distribute (vm.GenerateAllowList prompts)
PromptRewardManager(option, subOK) ==
    /\ StagePrompt("rewardManager", option, subOK \/ option # "distribute", TRUE, "interop")
    /\ UNCHANGED <<wVariant, wFlags, subnetType, externalGasToken, useTeleporter, wWritten>>

\* where the wizard goes after the interoperability block
AfterInterop == IF EvmWithoutGenesis THEN "permissioning" ELSE "finish"

\* mutant: the teleporter prompt is shown whenever the flag was not given
TeleporterPromptShownIgnoringToken(flags, external) == flags.teleporter = "unset"

\* !flag.Changed && !externalGasToken
TeleporterPromptShown(flags, external) == flags.teleporter = "unset" /\ ~external

\* the head of the interoperability block: teleporter is forced on by an
\* external gas token and by --evm-defaults before the prompt is decided
Interoperability ==
    /\ wpc = "interop"
    /\ IF subnetType = "SubnetEvm" \/ wFlags.genesisFile = "evm"
         THEN /\ useTeleporter' =
                    (IF externalGasToken \/ wFlags.EvmDefaults THEN TRUE ELSE useTeleporter)
              /\ wpc' = IF TeleporterPromptShown(wFlags, externalGasToken)
                          THEN "teleporter" ELSE "teleporterCheck"
         ELSE /\ useTeleporter' = useTeleporter
              /\ wpc' = AfterInterop
    /\ UNCHANGED <<wVariant, wFlags, subnetType, externalGasToken, wPrompted, wLast,
                   wWritten, wRet>>

PromptTeleporter(option) ==
    /\ StagePrompt("teleporter", option, TRUE, TRUE, "teleporterCheck")
    /\ useTeleporter' = IF option = "interoperate" THEN TRUE
                        ELSE IF option = "isolated" THEN FALSE ELSE useTeleporter
    /\ UNCHANGED <<wVariant, wFlags, subnetType, externalGasToken, wWritten>>

\* the warp check and teleporter.GetInfo
TeleporterCheck(infoOK) ==
    /\ wpc = "teleporterCheck"
    /\ IF useTeleporter /\ ~wFlags.useWarp
         THEN WReturn("warp should be enabled for teleporter to work")
       ELSE IF useTeleporter /\ ~infoOK
         THEN WReturn("collaborator error")
       ELSE wpc' = AfterInterop /\ wRet' = wRet
    /\ UNCHANGED <<wVariant, wFlags, subnetType, externalGasToken, useTeleporter,
                   wPrompted, wLast, wWritten>>

PromptPermissioning(option) ==
    /\ StagePrompt("permissioning", option, TRUE, TRUE,
                   IF option = "Yes" THEN "txAllowList" ELSE "finish")
    /\ UNCHANGED <<wVariant, wFlags, subnetType, externalGasToken, useTeleporter, wWritten>>

PromptTxAllowList(option, subOK) ==
    /\ StagePrompt("txAllowList", option, subOK \/ option # "approved", TRUE,
                   "deployerAllowList")
    /\ UNCHANGED <<wVariant, wFlags, subnetType, externalGasToken, useTeleporter, wWritten>>

PromptDeployerAllowList(option, subOK) ==
    /\ StagePrompt("deployerAllowList", option, subOK \/ option # "approved", TRUE, "finish")
    /\ UNCHANGED <<wVariant, wFlags, subnetType, externalGasToken, useTeleporter, wWritten>>

\* the `return nil` that follows the permissioning block; the statements after
\* it (CreateEvmSubnetConfig, WriteGenesisFile, CreateSidecar, sendMetrics) are
\* never executed
WizReturn ==
    /\ wpc = "finish"
    /\ WReturn("nil")
    /\ UNCHANGED <<wVariant, wFlags, subnetType, externalGasToken, useTeleporter,
                   wPrompted, wLast, wWritten>>

(***************************************************************************)
(* Relayer logs command (logs): --first / --last selection of log lines    *)
(***************************************************************************)

\* the contents of a log line; lines of the relayer log are never blank
LogLineTexts == {"a", "b"}

\* a log file: its lines, and whether the last line ends with a newline
LogFiles ==
    [lines : {<<>>} \cup SeqsUpTo(LogLineTexts, MaxLogLines), terminated : BOOLEAN]

\* strings.Split(string(bs), "\n"): one element per newline-separated piece,
\* so the text after the final newline is an element too, empty or not
Split(file) ==
    IF file.lines = <<>> THEN <<"">>
    ELSE IF file.terminated THEN Append(file.lines, "") ELSE file.lines

\* logLines[:first] when len(logLines) > first
TakeFirst(lines, n) ==
    IF n # 0 /\ Len(lines) > n THEN SubSeq(lines, 1, n) ELSE lines

\* logLines[len(logLines)-1-last:] when len(logLines) > last
TakeLast(lines, n) ==
    IF n # 0 /\ Len(lines) > n THEN SubSeq(lines, Len(lines) - n, Len(lines)) ELSE lines

\* the output loop: TrimSpace and skip empty lines
Printed(lines) == SelectSeq(lines, LAMBDA l : l # "")

InitLogs ==
    /\ logFile \in LogFiles
    /\ first \in 0..MaxLogLines
    /\ last \in 0..MaxLogLines
    /\ logLines = <<>>
    /\ logOut = <<>>
    /\ lpc = "read"

IdleLogs ==
    /\ logFile = [lines |-> <<>>, terminated |-> FALSE]
    /\ first = 0
    /\ last = 0
    /\ logLines = <<>>
    /\ logOut = <<>>
    /\ lpc = "idle"

\* os.ReadFile and strings.Split
LogsRead ==
    /\ lpc = "read"
    /\ logLines' = Split(logFile)
    /\ lpc' = "first"
    /\ UNCHANGED <<logFile, first, last, logOut>>

LogsFirst ==
    /\ lpc = "first"
    /\ logLines' = TakeFirst(logLines, first)
    /\ lpc' = "last"
    /\ UNCHANGED <<logFile, first, last, logOut>>

LogsLast ==
    /\ lpc = "last"
    /\ logLines' = TakeLast(logLines, last)
    /\ lpc' = "print"
    /\ UNCHANGED <<logFile, first, last, logOut>>

LogsPrint ==
    /\ lpc = "print"
    /\ logOut' = Printed(logLines)
    /\ lpc' = "done"
    /\ UNCHANGED <<logFile, first, last, logLines>>

(***************************************************************************)
(* Security group check (CheckIPInSg)                                      *)
(***************************************************************************)

\* an IPv4 address is its four octets
IP(a, b, c, d) == <<a, b, c, d>>

CIDR(a, b, c, d, bits) == [base |-> <<a, b, c, d>>, bits |-> bits]

\* 2^n
RECURSIVE Pow2(_)
Pow2(n) == IF n = 0 THEN 1 ELSE 2 * Pow2(n - 1)

\* the network part of an address under a prefix length, as the pair of its
\* upper and lower 16 bits
NetworkPart(ip, bits) ==
    IF bits <= 16
      THEN <<(ip[1] * 256 + ip[2]) \div Pow2(16 - bits), 0>>
      ELSE <<ip[1] * 256 + ip[2], (ip[3] * 256 + ip[4]) \div Pow2(32 - bits)>>

\* the CIDR range contains the address
CidrContains(range, ip) == NetworkPart(range.base, range.bits) = NetworkPart(ip, range.bits)

\* mutant: only the first range of a permission is looked at
AnyRangeContainsFirstOnly(ranges, ip) == ranges # <<>> /\ CidrContains(ranges[1], ip)

\* the loop over the ranges of one permission
RECURSIVE AnyRangeContains(_, _)
AnyRangeContains(ranges, ip) ==
    IF ranges = <<>> THEN FALSE
    ELSE IF CidrContains(Head(ranges), ip) THEN TRUE
    ELSE AnyRangeContains(Tail(ranges), ip)

\* the loop over the permissions of the security group
RECURSIVE CheckIPInSg(_, _, _)
CheckIPInSg(perms, ip, port) ==
    IF perms = <<>> THEN FALSE
    ELSE IF /\ Head(perms).FromPort = port
            /\ Head(perms).ToPort = port
            /\ AnyRangeContains(Head(perms).IpRanges, ip)
      THEN TRUE
    ELSE CheckIPInSg(Tail(perms), ip, port)

\* the ranges, addresses and ports of TestCheckIPInSgWithMultipleIpRanges
TestRanges == {CIDR(192, 168, 1, 0, 24), CIDR(10, 0, 0, 0, 16), CIDR(172, 16, 0, 0, 20)}

TestIPs == {IP(192, 168, 1, 1), IP(10, 0, 1, 1), IP(172, 16, 0, 1),
            IP(192, 168, 2, 1), IP(10, 1, 1, 1), IP(172, 16, 32, 1)}

TestPorts == {80, 8080}

\* mockSg.IpPermissions
mockIpPermissions ==
    << [IpRanges |-> <<CIDR(192, 168, 1, 0, 24), CIDR(10, 0, 0, 0, 16)>>,
        FromPort |-> 8080, ToPort |-> 8080],
       [IpRanges |-> <<CIDR(172, 16, 0, 0, 20)>>, FromPort |-> 80, ToPort |-> 80] >>

IpPermissions ==
    {[IpRanges |-> r, FromPort |-> p, ToPort |-> p] :
        r \in {<<>>} \cup SeqsUpTo(TestRanges, MaxRanges), p \in TestPorts}

SecurityGroups == {<<>>} \cup SeqsUpTo(IpPermissions, MaxPermissions)

InitSg ==
    /\ sg \in SecurityGroups
    /\ currentIP \in TestIPs
    /\ sgPort \in TestPorts
    /\ sgResult = FALSE
    /\ sgpc = "ready"

IdleSg ==
    /\ sg = <<>>
    /\ currentIP = IP(0, 0, 0, 0)
    /\ sgPort = 0
    /\ sgResult = FALSE
    /\ sgpc = "idle"

\* awsAPI.CheckUserIPInSg(sg, userIPAddress, port), tested as CheckIPInSg
SgCheck ==
    /\ sgpc = "ready"
    /\ sgResult' = CheckIPInSg(sg, currentIP, sgPort)
    /\ sgpc' = "done"
    /\ UNCHANGED <<sg, currentIP, sgPort>>

(***************************************************************************)
(* The bootstrap goroutine of one host, call by call: Connect,             *)
(* provideStakingCertAndKey (generateNodeCertAndKeys, then                 *)
(* RunSSHUploadStakingFiles), RunSSHSetupNode, RunSSHSetupBuildEnv,        *)
(* RunSSHSetupCLIFromSource.                                               *)
(***************************************************************************)

\* the calls of the goroutine in program order, each with the bootstrap step
\* it belongs to
HostOperations ==
    << [op |-> "Connect", step |-> "Connect"],
       [op |-> "NewCertAndKeyBytes", step |-> "provideStakingCertAndKey"],
       [op |-> "NewBlsSecretKeyBytes", step |-> "provideStakingCertAndKey"],
       [op |-> "MkdirAll", step |-> "provideStakingCertAndKey"],
       [op |-> "Upload staker.crt", step |-> "provideStakingCertAndKey"],
       [op |-> "Upload staker.key", step |-> "provideStakingCertAndKey"],
       [op |-> "Upload signer.key", step |-> "provideStakingCertAndKey"],
       [op |-> "RunSSHSetupNode", step |-> "RunSSHSetupNode"],
       [op |-> "RunSSHSetupBuildEnv", step |-> "RunSSHSetupBuildEnv"],
       [op |-> "RunSSHSetupCLIFromSource", step |-> "RunSSHSetupCLIFromSource"] >>

InitHost ==
    /\ opLog = [h \in Hosts |-> <<>>]
    /\ hostRun = [h \in Hosts |-> "run"]

IdleHost ==
    /\ opLog = [h \in Hosts |-> <<>>]
    /\ hostRun = [h \in Hosts |-> "idle"]

\* mutant: the error of a call is not looked at
HostOperationIgnoringError(h, ok) ==
    /\ hostRun[h] = "run"
    /\ opLog' = [opLog EXCEPT ![h] = Append(@, [op |-> HostOperations[Len(@) + 1].op,
                                                 ok |-> ok])]
    /\ hostRun' = [hostRun EXCEPT ![h] =
                      IF Len(opLog[h]) + 1 = Len(HostOperations) THEN "ok" ELSE "run"]

\* the goroutine makes its next call; `if err != nil { return err }` after it
HostOperation(h, ok) ==
    /\ hostRun[h] = "run"
    /\ opLog' = [opLog EXCEPT ![h] = Append(@, [op |-> HostOperations[Len(@) + 1].op,
                                                 ok |-> ok])]
    /\ hostRun' = [hostRun EXCEPT ![h] =
                      IF ~ok THEN "failed"
                      ELSE IF Len(opLog[h]) + 1 = Len(HostOperations) THEN "ok"
                      ELSE "run"]

(***************************************************************************)
(* createEC2Instances: the key-pair decision for one region, the rename    *)
(* loop (promptKeyPairName / getNewKeyPairName), the apply, and the        *)
(* collection of the certificate (addCertToSSH, GetSSHCertFilePath).       *)
(***************************************************************************)

\* instanceConf[region].Prefix
DefaultKeyPairName == "prefix"

\* the key-pair names of the model; "prefix-region" is the name whose
\* certificate file name is instanceConf[region].CertName
KeyPairNameTexts == {DefaultKeyPairName, "prefix-region", "other"}

\* name + constants.CertSuffix
CertNameOf(name) == <<name, "-kp.pem">>

\* instanceConf[region].CertName: prefix + "-" + region + constants.CertSuffix
DefaultCertName == CertNameOf("prefix-region")

NoKeyPair == [keyName |-> "none", certName |-> <<"none">>]

KdRunning == [err |-> "running", sshCertPath |-> <<"none">>]

KdErr(e) == [err |-> e, sshCertPath |-> <<"none">>]

\* a certificate that was in the SSH directory before the command ran
OldCert == "an earlier key pair"

\* app.CheckCertInSSHDir(instanceConf[region].CertName)
certInSSHDir == DefaultCertName \in DOMAIN sshDir

\* awsAPI.CheckKeyPairExists(ec2Svc[region], name)
CheckKeyPairExists(name) == name \in cloudKeyPairs

InitKd ==
    /\ cloudKeyPairs \in SUBSET KeyPairNameTexts
    /\ altName \in {""} \cup KeyPairNameTexts
    /\ sshDir \in {EmptyMap, DefaultCertName :> OldCert}
    /\ newKeyPairName = ""
    /\ promptCalled = FALSE
    /\ captures = 0
    /\ checkedNames = {}
    /\ setKeyPair = NoKeyPair
    /\ kdUseExisting = FALSE
    /\ kdKeyPairName = ""
    /\ tempDir = EmptyMap
    /\ kdRet = KdRunning
    /\ kdpc = "check"

IdleKd ==
    /\ cloudKeyPairs = {}
    /\ altName = ""
    /\ sshDir = EmptyMap
    /\ newKeyPairName = ""
    /\ promptCalled = FALSE
    /\ captures = 0
    /\ checkedNames = {}
    /\ setKeyPair = NoKeyPair
    /\ kdUseExisting = FALSE
    /\ kdKeyPairName = ""
    /\ tempDir = EmptyMap
    /\ kdRet = KdRunning
    /\ kdpc = "idle"

\* mutant: a key pair that exists in the cloud is reused whether or not its
\* certificate is in the SSH directory
KeyPairDecisionByCloudOnly(keyPairExists, certLocal) ==
    IF keyPairExists THEN "reuse" ELSE IF certLocal THEN "rename" ELSE "create"

\* the four branches of the decision
KeyPairDecision(keyPairExists, certLocal) ==
    IF ~keyPairExists
      THEN (IF ~certLocal THEN "create" ELSE "rename")
      ELSE (IF certLocal THEN "reuse" ELSE "rename")

\* the loop body of createEC2Instances up to the key-pair branch
KdCheck(collabOK) ==
    /\ kdpc = "check"
    /\ IF ~collabOK
         THEN /\ kdRet' = KdErr("collaborator")
              /\ kdpc' = "returned"
              /\ UNCHANGED <<newKeyPairName, promptCalled, setKeyPair, kdUseExisting,
                             kdKeyPairName>>
         ELSE LET decision ==
                      KeyPairDecision(CheckKeyPairExists(DefaultKeyPairName), certInSSHDir)
              IN /\ kdKeyPairName' = DefaultKeyPairName
                 /\ kdUseExisting' = (decision = "reuse")
                 /\ setKeyPair' = IF decision = "create"
                                    THEN [keyName |-> DefaultKeyPairName,
                                          certName |-> DefaultCertName]
                                    ELSE setKeyPair
                 /\ promptCalled' = (decision = "rename")
                 /\ newKeyPairName' = IF decision = "rename" THEN altName ELSE newKeyPairName
                 /\ kdpc' = IF decision = "rename" THEN "getNewKeyPairName" ELSE "decided"
                 /\ kdRet' = kdRet
    /\ UNCHANGED <<cloudKeyPairs, altName, captures, checkedNames, tempDir, sshDir>>

\* one iteration of the loop of getNewKeyPairName; when it returns a name,
\* promptKeyPairName derives the certificate name and SetKeyPair is called
GetNewKeyPairNameStep(collabOK, answer) ==
    /\ kdpc = "getNewKeyPairName"
    /\ IF newKeyPairName # "" /\ ~collabOK
         THEN /\ kdRet' = KdErr("collaborator")
              /\ kdpc' = "returned"
              /\ UNCHANGED <<newKeyPairName, captures, checkedNames, setKeyPair,
                             kdKeyPairName>>
       ELSE IF newKeyPairName # "" /\ ~CheckKeyPairExists(newKeyPairName)
         THEN /\ checkedNames' = checkedNames \cup {newKeyPairName}
              /\ kdKeyPairName' = newKeyPairName
              /\ setKeyPair' = [keyName |-> newKeyPairName,
                                certName |-> CertNameOf(newKeyPairName)]
              /\ kdpc' = "decided"
              /\ UNCHANGED <<newKeyPairName, captures, kdRet>>
       ELSE /\ captures < MaxRenamePrompts
            /\ captures' = captures + 1
            /\ IF answer = PromptFailed
                 THEN kdRet' = KdErr("prompt error") /\ kdpc' = "returned"
                      /\ newKeyPairName' = ""
                 ELSE kdRet' = kdRet /\ kdpc' = kdpc /\ newKeyPairName' = answer
            /\ UNCHANGED <<checkedNames, setKeyPair, kdKeyPairName>>
    /\ UNCHANGED <<cloudKeyPairs, altName, promptCalled, kdUseExisting, tempDir, sshDir>>

\* SaveConf and RunTerraform: the apply writes the local_file of every
\* SetKeyPair block into the terraform directory
KdRunTerraform(applyOK) ==
    /\ kdpc = "decided"
    /\ IF applyOK
         THEN /\ tempDir' = IF setKeyPair = NoKeyPair THEN tempDir
                            ELSE setKeyPair.certName :> setKeyPair.keyName
              /\ cloudKeyPairs' = IF setKeyPair = NoKeyPair THEN cloudKeyPairs
                                  ELSE cloudKeyPairs \cup {setKeyPair.keyName}
              /\ kdpc' = "applied"
              /\ kdRet' = kdRet
         ELSE /\ kdRet' = KdErr("ErrCreatingAWSNode")
              /\ kdpc' = "returned"
              /\ UNCHANGED <<tempDir, cloudKeyPairs>>
    /\ UNCHANGED <<altName, newKeyPairName, promptCalled, captures, checkedNames,
                   setKeyPair, kdUseExisting, kdKeyPairName, sshDir>>

\* addCertToSSH(instanceConf[region].CertName) unless the key pair is reused:
\* Chmod of the file in the terraform directory, Rename into the SSH
\* directory; then GetSSHCertFilePath(instanceConf[region].CertName)
KdCollectCert ==
    /\ kdpc = "applied"
    /\ IF ~kdUseExisting /\ DefaultCertName \notin DOMAIN tempDir
         THEN /\ kdRet' = KdErr("addCertToSSH")
              /\ UNCHANGED <<tempDir, sshDir>>
         ELSE /\ sshDir' = IF kdUseExisting THEN sshDir
                           ELSE (DefaultCertName :> tempDir[DefaultCertName]) @@ sshDir
              /\ tempDir' = IF kdUseExisting THEN tempDir
                            ELSE [c \in DOMAIN tempDir \ {DefaultCertName} |-> tempDir[c]]
              /\ kdRet' = [err |-> "nil", sshCertPath |-> DefaultCertName]
    /\ kdpc' = "returned"
    /\ UNCHANGED <<cloudKeyPairs, altName, newKeyPairName, promptCalled, captures,
                   checkedNames, setKeyPair, kdUseExisting, kdKeyPairName>>

(***************************************************************************)
(* createNodes: building publicIPMap from the cloud config, region by      *)
(* region.                                                                 *)
(***************************************************************************)
IPRegions == Regions \cup {"eu-west-1"}

IPRegionLists ==
    {l \in UNION {[1..k -> IPRegions] : k \in 0..Cardinality(IPRegions)} : NoDuplicates(l)}

\* the address the cloud reports for an instance
PublicIPOf(id) == <<"ip", id>>

\* cloudConfig[region] after a successful createAWSInstances for n instances:
\* elastic IPs are set only with static IPs
IPCloudConfigOf(r, n, static) ==
    [InstanceIDs |-> InstancesOf(r, n),
     PublicIPs |-> IF static THEN [i \in 1..n |-> PublicIPOf(InstanceID(r, i))] ELSE <<>>]

\* awsAPI.GetInstancePublicIPs(ec2Svc[region], ids): a new map with the
\* addresses of the instances asked for
GetInstancePublicIPs(ids) == [id \in Range(ids) |-> PublicIPOf(id)]

InitIP ==
    /\ ipRegions \in IPRegionLists
    /\ useStaticIP \in BOOLEAN
    /\ \E counts \in [IPRegions -> 1..MaxNodesPerRegion] :
          ipCloudConfig = [r \in Range(ipRegions) |-> IPCloudConfigOf(r, counts[r], useStaticIP)]
    /\ publicIPMap = EmptyMap
    /\ ipIdx = 0
    /\ ipRet = "running"

IdleIP ==
    /\ ipRegions = <<>>
    /\ useStaticIP = FALSE
    /\ ipCloudConfig = EmptyMap
    /\ publicIPMap = EmptyMap
    /\ ipIdx = 0
    /\ ipRet = "idle"

\* one iteration of `for _, region := range regions`, or the end of the loop
PublicIPStep(lookupOK) ==
    /\ ipRet = "running"
    /\ IF ipIdx = Len(ipRegions)
         THEN /\ ipRet' = "nil"
              /\ UNCHANGED <<publicIPMap, ipIdx>>
         ELSE LET cc == ipCloudConfig[ipRegions[ipIdx + 1]]
              IN IF ~useStaticIP
                   THEN IF lookupOK
                          THEN /\ publicIPMap' = GetInstancePublicIPs(cc.InstanceIDs)
                               /\ ipIdx' = ipIdx + 1
                               /\ ipRet' = ipRet
                          ELSE /\ ipRet' = "err"
                               /\ UNCHANGED <<publicIPMap, ipIdx>>
                   ELSE /\ publicIPMap' =
                              [id \in Range(cc.InstanceIDs) |->
                                  cc.PublicIPs[CHOOSE i \in DOMAIN cc.InstanceIDs :
                                                   cc.InstanceIDs[i] = id]] @@ publicIPMap
                        /\ ipIdx' = ipIdx + 1
                        /\ ipRet' = ipRet
    /\ UNCHANGED <<ipRegions, ipCloudConfig, useStaticIP>>

(***************************************************************************)
(* GetSubnetAuthKeys and CheckSubnetAuthKeys                               *)
(***************************************************************************)
KeyTexts == {"k1", "k2", "k3"}

\* getIndexInSlice: the first index of the element, 0 standing for not found
\* (indices are from 1 here)
getIndexInSlice(list, element) ==
    IF \E i \in DOMAIN list : list[i] = element
      THEN CHOOSE i \in DOMAIN list : list[i] = element /\ \A j \in 1..(i - 1) : list[j] # element
      ELSE 0

\* mutant: the chosen key stays among the options
KeepAll(list, index) == list

\* append(list[:index], list[index+1:]...)
RemoveAt(list, index) == SubSeq(list, 1, index - 1) \o SubSeq(list, index + 1, Len(list))

\* CheckSubnetAuthKeys: "nil" or the error
CheckSubnetAuthKeys(wallet, authKeys, ctrlKeys, thr) ==
    IF wallet \in Range(ctrlKeys) /\ wallet \notin Range(authKeys)
      THEN "wallet key must be included in subnet auth keys"
    ELSE IF Len(authKeys) # thr
      THEN "number of given subnet auth differs from the threshold"
    ELSE IF \E i \in DOMAIN authKeys : authKeys[i] \notin Range(ctrlKeys)
      THEN "subnet auth key does not belong to control keys"
    ELSE "nil"

InitAk ==
    /\ walletKey \in KeyTexts \cup {"w"}
    /\ controlKeys \in {l \in {<<>>} \cup SeqsUpTo(KeyTexts, MaxControlKeys) : NoDuplicates(l)}
    /\ threshold \in 0..MaxControlKeys
    /\ subnetAuthKeys = <<>>
    /\ filteredControlKeys = <<>>
    /\ akPrompts = 0
    /\ akErr = "running"
    /\ akpc = "start"

IdleAk ==
    /\ walletKey = "w"
    /\ controlKeys = <<>>
    /\ threshold = 0
    /\ subnetAuthKeys = <<>>
    /\ filteredControlKeys = <<>>
    /\ akPrompts = 0
    /\ akErr = "running"
    /\ akpc = "idle"

\* the part before the loop
AkStart ==
    /\ akpc = "start"
    /\ IF Len(controlKeys) = threshold
         THEN /\ subnetAuthKeys' = controlKeys
              /\ filteredControlKeys' = filteredControlKeys
              /\ akErr' = "nil"
              /\ akpc' = "returned"
       ELSE IF walletKey \in Range(controlKeys)
         THEN /\ subnetAuthKeys' = <<walletKey>>
              /\ filteredControlKeys' =
                    RemoveAt(controlKeys, getIndexInSlice(controlKeys, walletKey))
              /\ akErr' = akErr
              /\ akpc' = "loop"
       ELSE /\ subnetAuthKeys' = <<>>
            /\ filteredControlKeys' = controlKeys
            /\ akErr' = akErr
            /\ akpc' = "loop"
    /\ UNCHANGED <<walletKey, controlKeys, threshold, akPrompts>>

\* the loop test and one iteration: the prompter answers with one of the
\* options it was given (choice), or with an error; it has nothing to answer
\* with when the options are empty
AkLoop(choice, promptOK) ==
    /\ akpc = "loop"
    /\ IF Len(subnetAuthKeys) = threshold
         THEN /\ akErr' = "nil"
              /\ akpc' = "returned"
              /\ UNCHANGED <<subnetAuthKeys, filteredControlKeys, akPrompts>>
         ELSE /\ akPrompts < MaxControlKeys + 1
              /\ akPrompts' = akPrompts + 1
              /\ IF ~promptOK \/ filteredControlKeys = <<>>
                   THEN /\ akErr' = "prompt error"
                        /\ akpc' = "returned"
                        /\ UNCHANGED <<subnetAuthKeys, filteredControlKeys>>
                   ELSE /\ choice \in Range(filteredControlKeys)
                        /\ subnetAuthKeys' = Append(subnetAuthKeys, choice)
                        /\ filteredControlKeys' =
                              RemoveAt(filteredControlKeys,
                                       getIndexInSlice(filteredControlKeys, choice))
                        /\ UNCHANGED <<akErr, akpc>>
    /\ UNCHANGED <<walletKey, controlKeys, threshold>>

(***************************************************************************)
(* CaptureListDecision                                                     *)
(***************************************************************************)
Add == "Add"
Del == "Delete"
Preview == "Preview"
MoreInfo == "More Info"
Done == "Done"
Cancel == "Cancel"

ListOptions == {Add, Del, Preview, MoreInfo, Done, Cancel}
ListElements == {"a", "b", "c"}

\* mutant: nothing is ever found in the list
containsNothing(list, element) == FALSE

contains(list, element) == \E i \in DOMAIN list : list[i] = element

NoReturn == [returned |-> FALSE]
CldReturn(list, isNil, cancel, err) ==
    [returned |-> TRUE, list |-> list, isNil |-> isNil, cancel |-> cancel, err |-> err]

InitCld ==
    /\ finalList = <<>>
    /\ listDecision = "none"
    /\ cldRet = NoReturn
    /\ liveSince = [e \in ListElements |-> 0]
    /\ cldTurn = 0
    /\ cldpc = "loop"

IdleCld ==
    /\ finalList = <<>>
    /\ listDecision = "none"
    /\ cldRet = NoReturn
    /\ liveSince = [e \in ListElements |-> 0]
    /\ cldTurn = 0
    /\ cldpc = "idle"

\* one turn of the loop: the option chosen at the prompt (or the prompt's
\* error), the element captured for Add (or the capture's error), the index
\* (from 0) chosen for Delete (or that prompt's error)
ListDecision(decision, promptOK, elem, captureOK, index, indexOK) ==
    /\ cldpc = "loop"
    /\ cldTurn < MaxDecisions
    /\ cldTurn' = cldTurn + 1
    /\ listDecision' = IF promptOK THEN decision ELSE "none"
    /\ IF ~promptOK
         THEN /\ cldRet' = CldReturn(<<>>, TRUE, FALSE, "prompt error")
              /\ cldpc' = "returned"
              /\ UNCHANGED <<finalList, liveSince>>
       ELSE IF decision = Add
         THEN IF ~captureOK
                THEN /\ cldRet' = CldReturn(<<>>, TRUE, FALSE, "capture error")
                     /\ cldpc' = "returned"
                     /\ UNCHANGED <<finalList, liveSince>>
              ELSE IF contains(finalList, elem)
                THEN UNCHANGED <<finalList, liveSince, cldRet, cldpc>>
              ELSE /\ finalList' = Append(finalList, elem)
                   /\ liveSince' = [liveSince EXCEPT ![elem] =
                                       IF @ = 0 THEN cldTurn + 1 ELSE @]
                   /\ UNCHANGED <<cldRet, cldpc>>
       ELSE IF decision = Del
         THEN IF Len(finalList) = 0
                THEN UNCHANGED <<finalList, liveSince, cldRet, cldpc>>
              ELSE IF ~indexOK
                THEN /\ cldRet' = CldReturn(<<>>, TRUE, FALSE, "prompt error")
                     /\ cldpc' = "returned"
                     /\ UNCHANGED <<finalList, liveSince>>
              ELSE /\ index \in 0..(Len(finalList) - 1)
                   /\ finalList' = RemoveAt(finalList, index + 1)
                   /\ liveSince' = [liveSince EXCEPT ![finalList[index + 1]] = 0]
                   /\ UNCHANGED <<cldRet, cldpc>>
       ELSE IF decision \in {Preview, MoreInfo}
         THEN UNCHANGED <<finalList, liveSince, cldRet, cldpc>>
       ELSE IF decision = Done
         THEN /\ cldRet' = CldReturn(finalList, FALSE, FALSE, "nil")
              /\ cldpc' = "returned"
              /\ UNCHANGED <<finalList, liveSince>>
       ELSE IF decision = Cancel
         THEN /\ cldRet' = CldReturn(<<>>, TRUE, TRUE, "nil")
              /\ cldpc' = "returned"
              /\ UNCHANGED <<finalList, liveSince>>
       ELSE /\ cldRet' = CldReturn(<<>>, TRUE, FALSE, "unexpected option")
            /\ cldpc' = "returned"
            /\ UNCHANGED <<finalList, liveSince>>

(***************************************************************************)
(* deleteSubnet                                                            *)
(***************************************************************************)
SubnetNames == {"subnetA", "subnetB"}
SubnetFileKinds == {"customVM", "genesis", "sidecar"}
VMKinds == {"Custom", "Subnet-EVM"}

GetSidecarPath(subnetName) == <<subnetName, "sidecar">>
GetGenesisPath(subnetName) == <<subnetName, "genesis">>
GetCustomVMPath(subnetName) == <<subnetName, "customVM">>

\* the files of a subnet
FilesOf(subnetName) == {<<subnetName, k>> : k \in SubnetFileKinds}

InitDel ==
    /\ delSubnetName \in SubnetNames
    /\ \E own \in SUBSET FilesOf(delSubnetName) :
          subnetFiles = own \cup UNION {FilesOf(n) : n \in SubnetNames \ {delSubnetName}}
    /\ sidecarVM \in VMKinds
    /\ sidecarLoads \in BOOLEAN
    /\ sidecarLoads => GetSidecarPath(delSubnetName) \in subnetFiles
    /\ removedFiles = {}
    /\ delErr = "running"
    /\ delpc = "load"

IdleDel ==
    /\ delSubnetName = "none"
    /\ subnetFiles = {}
    /\ sidecarVM = "Subnet-EVM"
    /\ sidecarLoads = FALSE
    /\ removedFiles = {}
    /\ delErr = "running"
    /\ delpc = "idle"

\* sidecar, err := app.LoadSidecar(args[0])
DelLoadSidecar ==
    /\ delpc = "load"
    /\ IF sidecarLoads
         THEN delpc' = "customVM" /\ delErr' = delErr
         ELSE delpc' = "returned" /\ delErr' = "LoadSidecar"
    /\ UNCHANGED <<delSubnetName, subnetFiles, sidecarVM, sidecarLoads, removedFiles>>

\* os.Stat(path), then os.Remove(path) whose error is dropped
StatAndRemove(path, removeOK, nextpc) ==
    IF path \in subnetFiles
      THEN /\ subnetFiles' = IF removeOK THEN subnetFiles \ {path} ELSE subnetFiles
           /\ removedFiles' = IF removeOK THEN removedFiles \cup {path} ELSE removedFiles
           /\ delpc' = nextpc
           /\ delErr' = IF nextpc = "returned" THEN "nil" ELSE delErr
      ELSE /\ delpc' = "returned"
           /\ delErr' = "stat"
           /\ UNCHANGED <<subnetFiles, removedFiles>>

DelCustomVM(removeOK) ==
    /\ delpc = "customVM"
    /\ IF sidecarVM = "Custom"
         THEN StatAndRemove(GetCustomVMPath(delSubnetName), removeOK, "genesis")
         ELSE delpc' = "genesis" /\ UNCHANGED <<subnetFiles, removedFiles, delErr>>
    /\ UNCHANGED <<delSubnetName, sidecarVM, sidecarLoads>>

DelGenesis(removeOK) ==
    /\ delpc = "genesis"
    /\ StatAndRemove(GetGenesisPath(delSubnetName), removeOK, "sidecar")
    /\ UNCHANGED <<delSubnetName, sidecarVM, sidecarLoads>>

DelSidecar(removeOK) ==
    /\ delpc = "sidecar"
    /\ StatAndRemove(GetSidecarPath(delSubnetName), removeOK, "returned")
    /\ UNCHANGED <<delSubnetName, sidecarVM, sidecarLoads>>

(***************************************************************************)
(* ensureAdminsHaveBalance                                                 *)
(* A big.Int is its sign and its magnitude, a little-endian list of 64-bit *)
(* words without leading zero words (zero is the empty list), as math/big  *)
(* stores it; the words used here are 0 and 1.                             *)
(***************************************************************************)
Addresses == {"0xA1", "0xA2"}
Words == {0, 1}

\* the normalised magnitudes of up to MaxLimbs words
Magnitudes ==
    {<<>>} \cup {m \in SeqsUpTo(Words, MaxLimbs) : Len(m) > 0 /\ m[Len(m)] # 0}

\* a balance: no big.Int at all (nil) or a non-negative big.Int
NilBalance == [isNil |-> TRUE]
Balances == {NilBalance} \cup {[isNil |-> FALSE, neg |-> FALSE, abs |-> m] : m \in Magnitudes}

\* big.Int.Uint64: the low 64 bits of the magnitude
Uint64(x) == IF x.abs = <<>> THEN 0 ELSE x.abs[1]

\* whether the big.Int is greater than zero
IsPositive(x) == ~x.isNil /\ ~x.neg /\ x.abs # <<>>

NoAccount == [present |-> FALSE]
Accounts == {NoAccount} \cup {[present |-> TRUE, Balance |-> b] : b \in Balances}

\* "nil" or "error"
ensureAdminsHaveBalance(adminList, allocation) ==
    IF Len(adminList) < 1 THEN "nil"
    ELSE IF \E i \in DOMAIN adminList :
              LET bal == allocation[adminList[i]]
              IN  /\ bal.present
                  /\ ~bal.Balance.isNil
                  /\ Uint64(bal.Balance) > 0
      THEN "nil"
    ELSE "error"

InitEab ==
    /\ admins \in {<<>>} \cup SeqsUpTo(Addresses, MaxAdmins)
    /\ alloc \in [Addresses -> Accounts]
    /\ eabRet = "none"

IdleEab ==
    /\ admins = <<>>
    /\ alloc = [a \in Addresses |-> NoAccount]
    /\ eabRet = "idle"

EnsureAdminsHaveBalance ==
    /\ eabRet = "none"
    /\ eabRet' = ensureAdminsHaveBalance(admins, alloc)
    /\ UNCHANGED <<admins, alloc>>

IdleSM ==
    /\ mode = "api" /\ stages = GenesisStages /\ sm = NoMachine
    /\ smErr = "nil" /\ lastCall = NoCall /\ gpc = "new"

IdleFleet ==
    /\ networkKind = "Fuji" /\ mainPc = "idle" /\ spawned = 0
    /\ createdWaitGroup = 0 /\ wg = 0
    /\ waiter = [h \in Hosts |-> "idle"] /\ task = [h \in Hosts |-> "idle"]
    /\ stepsStarted = [h \in Hosts |-> 0] /\ stepsDone = [h \in Hosts |-> 0]
    /\ hostErrors = <<>> /\ wgResults = <<>> /\ printed = <<>>
    /\ devnetSetup = "none" /\ ret = Running0

(***************************************************************************)
(* Specifications.                                                         *)
(***************************************************************************)
OthersThanSM == <<varsFleet, varsProv, varsWiz, varsLogs, varsSg, varsHost, varsKd, varsIP, varsAk, varsCld, varsDel, varsEab>>
OthersThanFleet == <<varsSM, varsProv, varsWiz, varsLogs, varsSg, varsHost, varsKd, varsIP, varsAk, varsCld, varsDel, varsEab>>
OthersThanProv == <<varsSM, varsFleet, varsWiz, varsLogs, varsSg, varsHost, varsKd, varsIP, varsAk, varsCld, varsDel, varsEab>>
OthersThanWiz == <<varsSM, varsFleet, varsProv, varsLogs, varsSg, varsHost, varsKd, varsIP, varsAk, varsCld, varsDel, varsEab>>
OthersThanLogs == <<varsSM, varsFleet, varsProv, varsWiz, varsSg, varsHost, varsKd, varsIP, varsAk, varsCld, varsDel, varsEab>>
OthersThanSg == <<varsSM, varsFleet, varsProv, varsWiz, varsLogs, varsHost, varsKd, varsIP, varsAk, varsCld, varsDel, varsEab>>
OthersThanHost == <<varsSM, varsFleet, varsProv, varsWiz, varsLogs, varsSg, varsKd, varsIP, varsAk, varsCld, varsDel, varsEab>>
OthersThanKd == <<varsSM, varsFleet, varsProv, varsWiz, varsLogs, varsSg, varsHost, varsIP, varsAk, varsCld, varsDel, varsEab>>
OthersThanIP == <<varsSM, varsFleet, varsProv, varsWiz, varsLogs, varsSg, varsHost, varsKd, varsAk, varsCld, varsDel, varsEab>>
OthersThanAk == <<varsSM, varsFleet, varsProv, varsWiz, varsLogs, varsSg, varsHost, varsKd, varsIP, varsCld, varsDel, varsEab>>
OthersThanCld == <<varsSM, varsFleet, varsProv, varsWiz, varsLogs, varsSg, varsHost, varsKd, varsIP, varsAk, varsDel, varsEab>>
OthersThanDel == <<varsSM, varsFleet, varsProv, varsWiz, varsLogs, varsSg, varsHost, varsKd, varsIP, varsAk, varsCld, varsEab>>
OthersThanEab == <<varsSM, varsFleet, varsProv, varsWiz, varsLogs, varsSg, varsHost, varsKd, varsIP, varsAk, varsCld, varsDel>>

NextSM ==
    \/ Construct /\ UNCHANGED OthersThanSM
    \/ \E d \in Directions : CallNextState(d) /\ UNCHANGED OthersThanSM
    \/ \E d \in Directions, e \in BOOLEAN : GenesisStep(d, e) /\ UNCHANGED OthersThanSM

InitStateMachine == InitSM /\ IdleFleet /\ IdleProv /\ IdleWiz /\ IdleLogs /\ IdleSg /\ IdleHost /\ IdleKd /\ IdleIP /\ IdleAk /\ IdleCld /\ IdleDel /\ IdleEab

SpecStateMachine == InitStateMachine /\ [][NextSM]_vars

Next ==
    \/ WaitSpawn /\ UNCHANGED OthersThanFleet
    \/ \E h \in Hosts, r \in BOOLEAN : WaitForSSHShell(h, r) /\ UNCHANGED OthersThanFleet
    \/ WaitJoin /\ UNCHANGED OthersThanFleet
    \/ BootstrapSpawn /\ UNCHANGED OthersThanFleet
    \/ \E h \in Hosts, ok \in BOOLEAN : BootstrapStep(h, ok) /\ UNCHANGED OthersThanFleet
    \/ \E d \in BOOLEAN : ReportAndReturn(d) /\ UNCHANGED OthersThanFleet

Init == InitFleet /\ IdleSM /\ IdleProv /\ IdleWiz /\ IdleLogs /\ IdleSg /\ IdleHost /\ IdleKd /\ IdleIP /\ IdleAk /\ IdleCld /\ IdleDel /\ IdleEab

Spec == Init /\ [][Next]_vars

PartialCounts == [Regions -> 0..MaxNodesPerRegion]

NextProvision ==
    \/ \E setupOK \in BOOLEAN : PreCreateChecks(setupOK) /\ UNCHANGED OthersThanProv
    \/ \E choice \in {"fixed", "custom", "promptErr"}, customList \in RegionLists \ {<<>>},
          cloudOK \in BOOLEAN :
            GetAWSCloudConfig(choice, customList, cloudOK) /\ UNCHANGED OthersThanProv
    \/ \E initOK \in BOOLEAN, entered \in CountLists \ {<<>>},
          kpCase \in [Regions -> KeyPairCases], collabOK \in BOOLEAN :
            CreateEC2Instances(initOK, entered, kpCase, collabOK)
              /\ UNCHANGED OthersThanProv
    \/ RunTerraformOK /\ UNCHANGED OthersThanProv
    \/ AddCertToSSHFail /\ UNCHANGED OthersThanProv
    \/ \E partial \in PartialCounts : RunTerraformFail(partial) /\ UNCHANGED OthersThanProv
    \/ \E idsOK \in BOOLEAN, regionsOutOK \in BOOLEAN, failing \in SUBSET AllCreated :
            Teardown(idsOK, regionsOutOK, failing) /\ UNCHANGED OthersThanProv
    \/ \E order \in RegionOrders(DOMAIN cloudConfig) :
            CreateClusterNodeConfig(order) /\ UNCHANGED OthersThanProv

InitProvision == InitProv /\ IdleSM /\ IdleFleet /\ IdleWiz /\ IdleLogs /\ IdleSg /\ IdleHost /\ IdleKd /\ IdleIP /\ IdleAk /\ IdleCld /\ IdleDel /\ IdleEab

SpecProvision == InitProvision /\ [][NextProvision]_vars

InitKeyPair == IdleProv /\ IdleSM /\ IdleFleet /\ IdleWiz /\ IdleLogs /\ IdleSg /\ IdleHost /\ IdleKd /\ IdleIP /\ IdleAk /\ IdleCld /\ IdleDel /\ IdleEab

NextKeyPair ==
    \E name \in KeyPairNames, path \in CertPaths :
        UpdateKeyPair(name, path) /\ UNCHANGED OthersThanProv

SpecKeyPair == InitKeyPair /\ [][NextKeyPair]_vars

Answers(options) == options \cup {explainOption, PromptFailed}

NextWizard ==
    \/ WizStart /\ UNCHANGED OthersThanWiz
    \/ \E o \in Answers({"Subnet-EVM", "Custom VM"}) : PromptVM(o) /\ UNCHANGED OthersThanWiz
    \/ \E ok \in BOOLEAN : WizVersion(ok) /\ UNCHANGED OthersThanWiz
    \/ \E o \in {"entered", PromptFailed} : PromptChainID(o) /\ UNCHANGED OthersThanWiz
    \/ \E o \in Answers({"native", "external"}), ok \in BOOLEAN :
          PromptGasToken(o, ok) /\ UNCHANGED OthersThanWiz
    \/ \E o \in Answers({"preset", "customize"}), ok \in BOOLEAN :
          PromptFeeConfig(o, ok) /\ UNCHANGED OthersThanWiz
    \/ \E o \in Answers({"keep", "change"}), ok \in BOOLEAN :
          PromptFeeManager(o, ok) /\ UNCHANGED OthersThanWiz
    \/ \E o \in Answers({"burn", "distribute"}), ok \in BOOLEAN :
          PromptRewardManager(o, ok) /\ UNCHANGED OthersThanWiz
    \/ Interoperability /\ UNCHANGED OthersThanWiz
    \/ \E o \in Answers({"interoperate", "isolated"}) :
          PromptTeleporter(o) /\ UNCHANGED OthersThanWiz
    \/ \E ok \in BOOLEAN : TeleporterCheck(ok) /\ UNCHANGED OthersThanWiz
    \/ \E o \in Answers({"No", "Yes"}) : PromptPermissioning(o) /\ UNCHANGED OthersThanWiz
    \/ \E o \in Answers({"anyone", "approved"}), ok \in BOOLEAN :
          PromptTxAllowList(o, ok) /\ UNCHANGED OthersThanWiz
    \/ \E o \in Answers({"anyone", "approved"}), ok \in BOOLEAN :
          PromptDeployerAllowList(o, ok) /\ UNCHANGED OthersThanWiz
    \/ WizReturn /\ UNCHANGED OthersThanWiz

InitWizard == InitWiz /\ IdleSM /\ IdleFleet /\ IdleProv /\ IdleLogs /\ IdleSg /\ IdleHost /\ IdleKd /\ IdleIP /\ IdleAk /\ IdleCld /\ IdleDel /\ IdleEab

SpecWizard == InitWizard /\ [][NextWizard]_vars

NextLogs ==
    \/ LogsRead /\ UNCHANGED OthersThanLogs
    \/ LogsFirst /\ UNCHANGED OthersThanLogs
    \/ LogsLast /\ UNCHANGED OthersThanLogs
    \/ LogsPrint /\ UNCHANGED OthersThanLogs

InitLogsCmd == InitLogs /\ IdleSM /\ IdleFleet /\ IdleProv /\ IdleWiz /\ IdleSg /\ IdleHost /\ IdleKd /\ IdleIP /\ IdleAk /\ IdleCld /\ IdleDel /\ IdleEab

SpecLogs == InitLogsCmd /\ [][NextLogs]_vars

NextSecurityGroup == SgCheck /\ UNCHANGED OthersThanSg

InitSecurityGroup == InitSg /\ IdleSM /\ IdleFleet /\ IdleProv /\ IdleWiz /\ IdleLogs /\ IdleHost /\ IdleKd /\ IdleIP /\ IdleAk /\ IdleCld /\ IdleDel /\ IdleEab

SpecSecurityGroup == InitSecurityGroup /\ [][NextSecurityGroup]_vars

NextHost == \E h \in Hosts, ok \in BOOLEAN : HostOperation(h, ok) /\ UNCHANGED OthersThanHost

InitHostSetup == InitHost /\ IdleSM /\ IdleFleet /\ IdleProv /\ IdleWiz /\ IdleLogs /\ IdleSg /\ IdleKd /\ IdleIP /\ IdleAk /\ IdleCld /\ IdleDel /\ IdleEab

SpecHostSetup == InitHostSetup /\ [][NextHost]_vars

NextKeyPairDecision ==
    \/ \E ok \in BOOLEAN : KdCheck(ok) /\ UNCHANGED OthersThanKd
    \/ \E ok \in BOOLEAN, a \in {"", PromptFailed} \cup KeyPairNameTexts :
          GetNewKeyPairNameStep(ok, a) /\ UNCHANGED OthersThanKd
    \/ \E ok \in BOOLEAN : KdRunTerraform(ok) /\ UNCHANGED OthersThanKd
    \/ KdCollectCert /\ UNCHANGED OthersThanKd

InitKeyPairDecision == InitKd /\ IdleSM /\ IdleFleet /\ IdleProv /\ IdleWiz /\ IdleLogs /\ IdleSg /\ IdleHost /\ IdleIP /\ IdleAk /\ IdleCld /\ IdleDel /\ IdleEab

SpecKeyPairDecision == InitKeyPairDecision /\ [][NextKeyPairDecision]_vars

NextPublicIP == \E ok \in BOOLEAN : PublicIPStep(ok) /\ UNCHANGED OthersThanIP

InitPublicIP == InitIP /\ IdleSM /\ IdleFleet /\ IdleProv /\ IdleWiz /\ IdleLogs /\ IdleSg /\ IdleHost /\ IdleKd /\ IdleAk /\ IdleCld /\ IdleDel /\ IdleEab

SpecPublicIP == InitPublicIP /\ [][NextPublicIP]_vars

NextAuthKeys ==
    \/ AkStart /\ UNCHANGED OthersThanAk
    \/ \E k \in KeyTexts, ok \in BOOLEAN : AkLoop(k, ok) /\ UNCHANGED OthersThanAk

InitAuthKeys == InitAk /\ IdleSM /\ IdleFleet /\ IdleProv /\ IdleWiz /\ IdleLogs /\ IdleSg /\ IdleHost /\ IdleKd /\ IdleIP /\ IdleCld /\ IdleDel /\ IdleEab

SpecAuthKeys == InitAuthKeys /\ [][NextAuthKeys]_vars

NextListDecision ==
    \E d \in ListOptions \cup {"Other"}, e \in ListElements, i \in 0..(MaxDecisions - 1), pOK, cOK, iOK \in BOOLEAN :
        ListDecision(d, pOK, e, cOK, i, iOK) /\ UNCHANGED OthersThanCld

InitListDecision == InitCld /\ IdleSM /\ IdleFleet /\ IdleProv /\ IdleWiz /\ IdleLogs /\ IdleSg /\ IdleHost /\ IdleKd /\ IdleIP /\ IdleAk /\ IdleDel /\ IdleEab

SpecListDecision == InitListDecision /\ [][NextListDecision]_vars

NextDeleteSubnet ==
    \/ DelLoadSidecar /\ UNCHANGED OthersThanDel
    \/ \E ok \in BOOLEAN : DelCustomVM(ok) /\ UNCHANGED OthersThanDel
    \/ \E ok \in BOOLEAN : DelGenesis(ok) /\ UNCHANGED OthersThanDel
    \/ \E ok \in BOOLEAN : DelSidecar(ok) /\ UNCHANGED OthersThanDel

InitDeleteSubnet == InitDel /\ IdleSM /\ IdleFleet /\ IdleProv /\ IdleWiz /\ IdleLogs /\ IdleSg /\ IdleHost /\ IdleKd /\ IdleIP /\ IdleAk /\ IdleCld /\ IdleEab

SpecDeleteSubnet == InitDeleteSubnet /\ [][NextDeleteSubnet]_vars

NextAdminsBalance == EnsureAdminsHaveBalance /\ UNCHANGED OthersThanEab

InitAdminsBalance == InitEab /\ IdleSM /\ IdleFleet /\ IdleProv /\ IdleWiz /\ IdleLogs /\ IdleSg /\ IdleHost /\ IdleKd /\ IdleIP /\ IdleAk /\ IdleCld /\ IdleDel

SpecAdminsBalance == InitAdminsBalance /\ [][NextAdminsBalance]_vars

(***************************************************************************)
(* Claims about the state machine, checked under SpecStateMachine.         *)
(***************************************************************************)

\* a NextState call is issued in this step (a repeated Backward at index 0
\* changes nothing and is covered by the first one)
Issued(d) == lastCall' # lastCall /\ lastCall'.dir = d

\* C1: a machine built from a non-empty duplicate-free list starts running at
\* its first stage; it stops running exactly in the step that issues
\* NextState(Forward) at the last stage, whatever Forward/Backward moves came
\* before; the genesis builder leaves its loop normally only by Forward from
\* the precompiles stage.
C1_RunningUntilForwardFromLast ==
    /\ []((gpc = "loop" /\ lastCall = NoCall) =>
            (Running(sm) /\ CurrentState(sm) = stages[1] /\ sm.states = stages))
    /\ []((gpc = "built") => (mode = "genesis" /\ ~Running(sm)))
    /\ [][ /\ Running(sm) =>
                (~Running(sm') <=>
                    (Issued(Forward) /\ sm.index = Len(sm.states) - 1))
           /\ (gpc # "built" /\ gpc' = "built") =>
                (Issued(Forward) /\ CurrentState(sm) = precompilesState
                 /\ sm.states = <<descriptorsState, feeState, airdropState,
                                  precompilesState>>)
       ]_vars

\* C1 witness: the genesis builder has left its loop after Forward from the
\* last of its four stages.
C1_Witness ==
    /\ mode = "genesis" /\ gpc = "built" /\ ~Running(sm)
    /\ lastCall = [dir |-> Forward, from |-> 3]

\* C2: NextState(Backward) at the first stage fails with InvalidBacktrack and
\* leaves the machine as it was; at a later stage i it makes stage i-1 current,
\* keeps the stage sequence, and the machine keeps running.
C2_BackwardMove ==
    [][ Issued(Backward) =>
          IF sm.index = 0
            THEN smErr' = "InvalidBacktrack" /\ sm' = sm
            ELSE /\ smErr' = "nil"
                 /\ sm'.index = sm.index - 1
                 /\ sm'.states = sm.states
                 /\ Running(sm')
                 /\ CurrentState(sm') = sm.states[sm.index]
      ]_vars

\* C2 witness: a Backward issued at the first stage of a machine with at
\* least two stages was refused.
C2_Witness ==
    /\ lastCall = [dir |-> Backward, from |-> 0]
    /\ smErr = "InvalidBacktrack"
    /\ Running(sm) /\ sm.index = 0 /\ Len(sm.states) >= 2

(***************************************************************************)
(* Claims about waitForHosts and the bootstrap fan-out, checked under Spec.*)
(***************************************************************************)
Entries(results, nodeID) == {i \in DOMAIN results : results[i].NodeID = nodeID}

\* the aggregate holds one entry for each writer and nothing else
ExactlyTheWriters(results, writers) ==
    /\ ResultsLen(results) = Cardinality(writers)
    /\ \A h \in Hosts :
          Cardinality(Entries(results, NodeID(h))) = IF h \in writers THEN 1 ELSE 0

WaitJoined == mainPc # "waitForHosts"

BootstrapJoined == mainPc = "done" /\ ret.kind # "failed to provision node(s)"

WaitWriters == {h \in Hosts : waiter[h] = "failed"}

BootstrapWriters == {h \in Hosts : task[h] = "failed"}

\* C3: after the wait-group join of either fan-out every task has finished
\* and the aggregate holds exactly one entry per task that wrote (N entries
\* when all N tasks wrote), no key missing or duplicated, in every
\* interleaving.
C3_AggregateAfterJoin ==
    /\ WaitJoined =>
          /\ \A h \in Hosts : waiter[h] \in {"ok", "failed"}
          /\ ExactlyTheWriters(hostErrors, WaitWriters)
    /\ BootstrapJoined =>
          /\ \A h \in Hosts : task[h] \in {"ok", "failed"}
          /\ ExactlyTheWriters(wgResults, BootstrapWriters)

\* C3 witness: the bootstrap fan-out was joined after every one of the N
\* tasks wrote its entry.
C3_Witness ==
    /\ BootstrapJoined
    /\ BootstrapWriters = Hosts
    /\ ResultsLen(wgResults) = NumHosts

\* the bootstrap state of one host
HostState(h) == <<task[h], stepsStarted[h], stepsDone[h]>>

\* C4: a host whose step failed has started no step after it and has exactly
\* one (node identifier, error) entry, the error being that of the failed
\* step; a step of one host changes no other host's progress; a host that is
\* still in its sequence can always take its next step, whatever happened to
\* the others; a host without failure ends with all steps done and no entry.
C4_FailureIsolatedPerHost ==
    /\ [](\A h \in Hosts :
            /\ task[h] = "failed" =>
                  /\ stepsStarted[h] = stepsDone[h] + 1
                  /\ Cardinality(Entries(wgResults, NodeID(h))) = 1
                  /\ \A i \in Entries(wgResults, NodeID(h)) :
                        wgResults[i].Err = BootstrapSteps[stepsStarted[h]]
            /\ task[h] = "ok" =>
                  /\ stepsDone[h] = Len(BootstrapSteps)
                  /\ stepsStarted[h] = stepsDone[h]
                  /\ Entries(wgResults, NodeID(h)) = {}
            /\ task[h] = "run" =>
                  /\ stepsStarted[h] = stepsDone[h]
                  /\ ENABLED BootstrapStep(h, TRUE)
                  /\ ENABLED BootstrapStep(h, FALSE))
    /\ [][\A a, b \in Hosts :
            (a # b /\ stepsStarted'[a] # stepsStarted[a]) => HostState(b)' = HostState(b)
       ]_vars

\* C4 witness: one host failed at its first step, another host completed its
\* whole sequence, and the failure is the only recorded entry.
C4_Witness ==
    \E a, b \in Hosts :
        /\ task[a] = "failed" /\ stepsStarted[a] = 1
        /\ task[b] = "ok" /\ stepsDone[b] = Len(BootstrapSteps)
        /\ ResultsLen(wgResults) = 1

\* C5: after the bootstrap barrier every host is reported exactly once,
\* ERROR iff it recorded an error, and if some host recorded an error
\* createNodes returns the aggregate error naming exactly the failed nodes,
\* on Fuji and on Devnet.
C5_ReportAndAggregateError ==
    BootstrapJoined =>
        /\ Len(printed) = NumHosts
        /\ \A h \in Hosts :
              /\ printed[h].node = NodeID(h)
              /\ printed[h].status = IF task[h] = "failed" THEN "ERROR" ELSE "CREATED"
        /\ (BootstrapWriters # {}) =>
              ret = [kind |-> "failed to deploy node(s)",
                     nodes |-> {NodeID(h) : h \in BootstrapWriters}]

\* C6: if some host did not become reachable, no bootstrap step is started on
\* any host and createNodes returns the provisioning error naming exactly the
\* unreachable hosts; bootstrap is entered only after every waiter finished
\* without failure.
C6_NoBootstrapAfterUnreachable ==
    /\ (WaitWriters # {}) =>
          /\ \A h \in Hosts : task[h] = "idle" /\ stepsStarted[h] = 0
          /\ mainPc \in {"waitForHosts", "done"}
          /\ mainPc = "done" =>
                ret = [kind |-> "failed to provision node(s)",
                       nodes |-> {NodeID(h) : h \in WaitWriters}]
    /\ (mainPc = "bootstrap" \/ \E h \in Hosts : task[h] # "idle") =>
          \A h \in Hosts : waiter[h] = "ok"

\* C6 witness: createNodes returned the provisioning error while one host was
\* reachable and another was not.
C6_Witness ==
    /\ mainPc = "done"
    /\ ret.kind = "failed to provision node(s)"
    /\ \E a, b \in Hosts : waiter[a] = "ok" /\ waiter[b] = "failed"
    /\ \A h \in Hosts : stepsStarted[h] = 0

(***************************************************************************)
(* Claims about provisioning (specification SpecProvision).                *)
(***************************************************************************)
\* C7: when the infra apply fails after M >= 1 instances were created, a stop
\* is attempted for each of the M instances; with no failed stop the returned
\* error names no instance, and with K failed stops it enumerates exactly
\* those K instance IDs.
C7_TeardownStopsEveryInstance ==
    (ppc \in {"done", "panic"} /\ applyFailed /\ AllCreated # {}) =>
        /\ stopAttempted = AllCreated
        /\ stopFailed = {} => pret.nodes = {}
        /\ stopFailed # {} => pret = [kind |-> "failed to stop node(s)", nodes |-> stopFailed]

CloudAPICalls ==
    {"session.NewSession", "GetUbuntuAMIID", "CheckKeyPairExists", "CheckSecurityGroupExists"}

InfraCalls ==
    {"terraform.InitConf", "SetCloudCredentials", "terraform.SaveConf",
     "terraform apply", "terraform output"}

MismatchErrors ==
    {"number of regions and number of nodes must be equal",
     "number of nodes and regions should be same"}

\* C8: whenever node creation fails because the number of regions differs
\* from the number of node counts, no cloud API call and no infra call has
\* been made.
C8_MismatchFailsBeforeAnyCall ==
    pret.kind \in MismatchErrors => calls \cap (CloudAPICalls \cup InfraCalls) = {}

RECURSIVE SumSeq(_)
SumSeq(list) == IF list = <<>> THEN 0 ELSE Head(list) + SumSeq(Tail(list))

\* every collaborator succeeded and the cluster files were written
AllSucceeded == ppc = "provisioned" /\ DOMAIN cloudConfig # {}

ClusterNodes == clustersConfig.Clusters[ClusterName].Nodes

PriorNodes ==
    IF ClusterName \in DOMAIN priorClusters.Clusters
      THEN priorClusters.Clusters[ClusterName].Nodes ELSE <<>>

KeyPairsAndNodeRecordsWritten ==
    /\ \A r \in Range(regions) : keyPairName[r] \in DOMAIN clustersConfig.KeyPair
    /\ \A id \in AllCreated :
          /\ id \in DOMAIN nodeConfigs
          /\ nodeConfigs[id].NodeID = id
          /\ nodeConfigs[id].Region = id[1]

C9_FirstPathKept ==
    /\ [](clustersConfig.KeyPair = kpFirst)
    /\ [][kpLast'.name \in DOMAIN clustersConfig.KeyPair
            => clustersConfig'.KeyPair = clustersConfig.KeyPair]_vars

\* the latest call named a registered key pair with another path than the
\* first call's, and the first path is still the registered one
C9_Witness ==
    /\ kpLast.name \in DOMAIN kpFirst
    /\ kpLast.path # kpFirst[kpLast.name]
    /\ clustersConfig.KeyPair[kpLast.name] = kpFirst[kpLast.name]
    /\ Cardinality(DOMAIN clustersConfig.KeyPair) >= 2

(***************************************************************************)
(* Further claims about the state machine (specification SpecStateMachine).*)
(***************************************************************************)
\* some stage name occurs at two positions of the list
NameRepeats(list) == \E i, j \in 1..Len(list) : i < j /\ list[i] = list[j]

\* C19: constructing a machine from a list in which a name repeats fails with
\* DuplicateStageError and yields no usable machine; construction from a
\* non-empty list of distinct names succeeds with that list as the stage
\* sequence, and no later step modifies the sequence.
C19_DuplicateStagesRejected ==
    /\ []((gpc # "new" /\ NameRepeats(stages)) =>
            /\ gpc = "nomachine"
            /\ smErr = "DuplicateStageError"
            /\ sm = NoMachine
            /\ ~Running(sm))
    /\ []((gpc # "new" /\ ~NameRepeats(stages)) =>
            /\ gpc # "nomachine"
            /\ sm.states = stages)
    /\ [][(gpc = "new" /\ gpc' # "new" /\ ~NameRepeats(stages)) =>
            (smErr' = "nil" /\ Running(sm') /\ sm'.index = 0)]_vars
    /\ [][gpc # "new" => sm'.states = sm.states]_vars

\* C19 witness: a list of three names with a repeated one was refused
C19_Witness ==
    /\ gpc = "nomachine"
    /\ smErr = "DuplicateStageError"
    /\ Len(stages) = 3
    /\ stages[1] = stages[3]

(***************************************************************************)
(* Further claims about provisioning (specification SpecProvision).        *)
(***************************************************************************)
\* terraform.InitConf was called and failed: createAWSInstances went no further
InitConfFailed == "terraform.InitConf" \in calls /\ "SetCloudCredentials" \notin calls

\* C17: a failed collaborator call is never swallowed: once the infra-config
\* initialisation in createAWSInstances has failed, createNodes has returned
\* a non-nil error and goes on to no later step.
C17_CollaboratorErrorReturned ==
    InitConfFailed => (ppc = "done" /\ pret.kind \notin {"running", "nil"})

(***************************************************************************)
(* Subnet create wizard                                                    *)
(***************************************************************************)

\* C16: with an existing configuration and no force flag the command stops at
\* the first check: it returns "configuration already exists" with no prompt
\* issued and nothing written; with the force flag that error never occurs and
\* the first check is passed
C16_ExistingConfigurationNeedsForce ==
    /\ [](/\ (wFlags.genesisExists /\ ~wFlags.ForceCreate /\ wpc # "idle") =>
                /\ wpc \in {"check", "returned"}
                /\ wPrompted = {}
                /\ wWritten = {}
                /\ (wpc = "returned" => wRet = "configuration already exists")
          /\ wFlags.ForceCreate => wRet # "configuration already exists")
    /\ [][(wpc = "check" /\ wFlags.genesisExists /\ wFlags.ForceCreate
             /\ ~wFlags.invalidName /\ wFlags.vm # "both" /\ wFlags.genesisFile = "none")
          => wpc' \in {"vm", "version"}]_vars

C16_Witness ==
    /\ wFlags.genesisExists
    /\ ~wFlags.ForceCreate
    /\ wpc = "returned"
    /\ wRet = "configuration already exists"

\* C14: once a gas token from another blockchain is selected the teleporter
\* prompt is never shown, the interoperability block leaves useTeleporter true
\* whatever the --teleporter flag said, and the command fails with the warp
\* error when warp is disabled
C14_ExternalGasTokenForcesTeleporter ==
    /\ [](externalGasToken =>
            /\ "teleporter" \notin wPrompted
            /\ wpc # "teleporter"
            /\ (wpc \in {"teleporterCheck", "permissioning", "txAllowList",
                         "deployerAllowList", "finish"} => useTeleporter)
            /\ (wRet = "nil" => useTeleporter /\ wFlags.useWarp))
    /\ [][/\ (externalGasToken /\ wpc = "interop") =>
                (useTeleporter' /\ wpc' = "teleporterCheck")
          /\ (externalGasToken /\ wpc = "teleporterCheck" /\ ~wFlags.useWarp) =>
                (wpc' = "returned"
                 /\ wRet' = "warp should be enabled for teleporter to work")]_vars

C14_Witness ==
    /\ externalGasToken
    /\ wFlags.teleporter = "false"
    /\ useTeleporter
    /\ "teleporter" \notin wPrompted
    /\ wRet = "warp should be enabled for teleporter to work"

\* C12: when a prompt of the wizard fails, at a stage or nested in a stage, the
\* command has returned that error and neither genesis nor sidecar is written
C12_PromptFailureAborts ==
    (wLast.option \in {PromptFailed, SubPromptFailed}) =>
        /\ wpc = "returned"
        /\ wRet = "prompt error"
        /\ wWritten = {}

C12_Witness ==
    /\ wLast = [stage |-> "deployerAllowList", option |-> SubPromptFailed]
    /\ wPrompted = {"vm", "chainID", "gasToken", "feeConfig", "feeManager", "rewardManager",
                    "teleporter", "permissioning", "txAllowList", "deployerAllowList"}
    /\ wRet = "prompt error"
    /\ wWritten = {}

\* C11: when the create flow returns success, the genesis file and the sidecar
\* have been written
C11_SuccessMeansWritten == wRet = "nil" => wWritten = {"genesis", "sidecar"}

\* C13: after the explain option is chosen at a stage, the wizard is still at
\* that stage
C13_ExplainRePrompts == wLast.option = explainOption => wpc = wLast.stage

\* C15: with --evm-defaults for a Subnet-EVM subnet without genesis file, none
\* of the gas-token/allocation, fee, precompile, interoperability and
\* permissioning prompts is issued, and a successful run has teleporter enabled
C15_DefaultsSkipPrompts ==
    (wFlags.EvmDefaults /\ EvmWithoutGenesis) =>
        /\ wPrompted \cap {"gasToken", "feeConfig", "feeManager", "rewardManager",
                           "teleporter", "permissioning", "txAllowList",
                           "deployerAllowList"} = {}
        /\ (wRet = "nil" => useTeleporter)

(***************************************************************************)
(* Relayer logs                                                            *)
(***************************************************************************)

\* the last n elements of a sequence, in order
LastLines(lines, n) == SubSeq(lines, Len(lines) - n + 1, Len(lines))

Min(a, b) == IF a <= b THEN a ELSE b

\* C18: with --last N (N > 0, no --first) on a log of L lines, the lines put
\* out are exactly the last min(N, L) lines of the log, in their order
C18_LastKeepsLastLines ==
    (lpc = "done" /\ last > 0 /\ first = 0) =>
        logOut = LastLines(logFile.lines, Min(last, Len(logFile.lines)))

(***************************************************************************)
(* Security group check                                                    *)
(***************************************************************************)

\* some permission for the port has some range containing the address
IPAllowed(perms, ip, port) ==
    \E i \in DOMAIN perms :
        /\ perms[i].FromPort = port
        /\ perms[i].ToPort = port
        /\ \E j \in DOMAIN perms[i].IpRanges : CidrContains(perms[i].IpRanges[j], ip)

\* what TestCheckIPInSgWithMultipleIpRanges expects of the mock security group
TestExpectations ==
    /\ CheckIPInSg(mockIpPermissions, IP(192, 168, 1, 1), 8080)
    /\ CheckIPInSg(mockIpPermissions, IP(10, 0, 1, 1), 8080)
    /\ CheckIPInSg(mockIpPermissions, IP(172, 16, 0, 1), 80)
    /\ ~CheckIPInSg(mockIpPermissions, IP(192, 168, 2, 1), 8080)
    /\ ~CheckIPInSg(mockIpPermissions, IP(10, 1, 1, 1), 8080)
    /\ ~CheckIPInSg(mockIpPermissions, IP(172, 16, 32, 1), 80)
    /\ ~CheckIPInSg(mockIpPermissions, IP(192, 168, 1, 1), 80)
    /\ ~CheckIPInSg(mockIpPermissions, IP(10, 0, 1, 1), 80)
    /\ ~CheckIPInSg(mockIpPermissions, IP(172, 16, 0, 1), 8080)

Unsignalled(tasks) == {h \in Hosts : tasks[h] = "run"}

\* the step in which createNodes reads hostErrors (Len, GetResults, GetNodeList)
ReadsHostErrors == mainPc = "waitForHosts" /\ mainPc' # "waitForHosts"

\* the step in which createNodes reads wgResults (HasNodeIDWithError,
\* GetErrorHostMap, HasErrors)
ReadsWgResults == mainPc = "bootstrap" /\ mainPc' = "done"

\* C21: each wait-group counter is the number of started tasks that have not
\* signalled, a task that has signalled never signals or writes again, and the
\* steps that read an aggregate are taken only when every task of that fan-out
\* was started and has signalled
C21_NoReadBeforeEveryWriterSignalled ==
    /\ [](/\ createdWaitGroup = Cardinality(Unsignalled(waiter))
          /\ wg = Cardinality(Unsignalled(task)))
    /\ [][/\ ReadsHostErrors =>
                /\ createdWaitGroup = 0
                /\ \A h \in Hosts : waiter[h] \in {"ok", "failed"}
          /\ ReadsWgResults =>
                /\ wg = 0
                /\ \A h \in Hosts : task[h] \in {"ok", "failed"}
          /\ \A h \in Hosts :
                /\ waiter[h] \in {"ok", "failed"} => waiter'[h] = waiter[h]
                /\ task[h] \in {"ok", "failed"} => task'[h] = task[h]
                /\ (waiter[h] = "run" /\ waiter'[h] # "run") =>
                       createdWaitGroup' = createdWaitGroup - 1
                /\ (task[h] = "run" /\ task'[h] # "run") => wg' = wg - 1
          /\ (\A h \in Hosts : waiter[h] # "run") => hostErrors' = hostErrors
          /\ (\A h \in Hosts : task[h] # "run") => wgResults' = wgResults]_vars

\* both fan-outs were joined and read, the second with a failed and a
\* successful task
C21_Witness ==
    /\ mainPc = "done"
    /\ \A h \in Hosts : waiter[h] = "ok"
    /\ task[1] = "failed"
    /\ task[NumHosts] = "ok"
    /\ printed # <<>>
    /\ wg = 0

(***************************************************************************)
(* Order of the bootstrap calls within a host                              *)
(***************************************************************************)

\* on host h, call b was made only after call a had been made and succeeded
Before(h, a, b) ==
    \A j \in DOMAIN opLog[h] :
        opLog[h][j].op = b => \E i \in 1..(j - 1) : opLog[h][i].op = a /\ opLog[h][i].ok

\* the bootstrap steps of HostOperations, in order of first appearance
RECURSIVE StepsOf(_)
StepsOf(ops) ==
    IF ops = <<>> THEN <<>>
    ELSE IF Len(ops) > 1 /\ ops[Len(ops) - 1].step = ops[Len(ops)].step
      THEN StepsOf(SubSeq(ops, 1, Len(ops) - 1))
    ELSE Append(StepsOf(SubSeq(ops, 1, Len(ops) - 1)), ops[Len(ops)].step)

\* C22: on each host the calls come in the order connect, generate staking
\* cert/key, generate BLS key, upload cert, upload key, upload BLS key, set up
\* node, set up build environment, install CLI; a call is made only if every
\* earlier call of that host succeeded, and no call is made twice
C22_StepsInOrder ==
    /\ StepsOf(HostOperations) = BootstrapSteps
    /\ \A h \in Hosts :
          /\ Before(h, "Connect", "NewCertAndKeyBytes")
          /\ Before(h, "NewCertAndKeyBytes", "NewBlsSecretKeyBytes")
          /\ Before(h, "NewBlsSecretKeyBytes", "Upload staker.crt")
          /\ Before(h, "Upload staker.crt", "Upload staker.key")
          /\ Before(h, "Upload staker.key", "Upload signer.key")
          /\ Before(h, "Upload signer.key", "RunSSHSetupNode")
          /\ Before(h, "RunSSHSetupNode", "RunSSHSetupBuildEnv")
          /\ Before(h, "RunSSHSetupBuildEnv", "RunSSHSetupCLIFromSource")
          /\ \A i, j \in DOMAIN opLog[h] :
                /\ i < j => opLog[h][i].ok
                /\ opLog[h][i].op = opLog[h][j].op => i = j
          /\ hostRun[h] = "ok" => Len(opLog[h]) = Len(HostOperations)

\* one host ran every call, the other stopped at the upload of the key
C22_Witness ==
    /\ hostRun[1] = "ok"
    /\ Len(opLog[1]) = Len(HostOperations)
    /\ hostRun[NumHosts] = "failed"
    /\ opLog[NumHosts][Len(opLog[NumHosts])] = [op |-> "Upload staker.key", ok |-> FALSE]

(***************************************************************************)
(* Key-pair decision                                                       *)
(***************************************************************************)

\* C23: before the apply, the key pair is reused and no key-pair resource is
\* added iff the default key pair exists in the cloud and its certificate
\* locally; otherwise exactly one key-pair resource is added, under the name
\* recorded for the region; the rename prompt is called iff exactly one of the
\* two exists, and the name it returned was checked and is not a key pair of
\* the region
C23_KeyPairDecisionTree ==
    kdpc \in {"getNewKeyPairName", "decided"} =>
        LET inCloud == CheckKeyPairExists(DefaultKeyPairName)
            local == certInSSHDir
        IN /\ promptCalled <=> (inCloud # local)
           /\ ~promptCalled => captures = 0
           /\ kdpc = "decided" =>
                 /\ kdUseExisting <=> (inCloud /\ local)
                 /\ (setKeyPair = NoKeyPair) <=> (inCloud /\ local)
                 /\ ~(inCloud /\ local) => setKeyPair.keyName = kdKeyPairName
                 /\ (~inCloud /\ ~local) => kdKeyPairName = DefaultKeyPairName
                 /\ promptCalled =>
                       /\ kdKeyPairName # ""
                       /\ kdKeyPairName \in checkedNames
                       /\ ~CheckKeyPairExists(kdKeyPairName)

\* the key pair exists in the cloud only; the name given on the command line
\* and the first answer were taken, the second answer was free
C23_Witness ==
    /\ kdpc = "decided"
    /\ CheckKeyPairExists(DefaultKeyPairName)
    /\ ~certInSSHDir
    /\ altName = "prefix-region"
    /\ captures = MaxRenamePrompts
    /\ kdKeyPairName = "other"
    /\ setKeyPair = [keyName |-> "other", certName |-> CertNameOf("other")]

\* C30: when createEC2Instances has returned for a region in which it added
\* a key-pair resource, it returned no error and the certificate path it
\* returned holds, in the SSH directory, the certificate generated for the
\* region's key pair
C30_CertificateOfTheNewKeyPair ==
    (kdpc = "returned" /\ setKeyPair # NoKeyPair
       /\ kdRet.err \notin {"collaborator", "prompt error", "ErrCreatingAWSNode"}) =>
        /\ kdRet.err = "nil"
        /\ kdRet.sshCertPath \in DOMAIN sshDir
        /\ sshDir[kdRet.sshCertPath] = kdKeyPairName

(***************************************************************************)
(* Public-IP map                                                           *)
(***************************************************************************)

\* the instances of all regions
AllInstances == UNION {Range(ipCloudConfig[r].InstanceIDs) : r \in DOMAIN ipCloudConfig}

\* C25: after the loop over two or more regions the public-IP map has the
\* address of every created instance of every region, with and without
\* static IPs
C25_PublicIPOfEveryInstance ==
    (ipRet = "nil" /\ Len(ipRegions) >= 2) =>
        /\ DOMAIN publicIPMap = AllInstances
        /\ \A id \in AllInstances : publicIPMap[id] = PublicIPOf(id)

(***************************************************************************)
(* Subnet auth keys                                                        *)
(***************************************************************************)

\* C24: when GetSubnetAuthKeys returns without error, the returned keys are
\* threshold many, pairwise distinct, all control keys, include the wallet
\* key if it is a control key, and CheckSubnetAuthKeys accepts them
C24_AuthKeysAccepted ==
    (akpc = "returned" /\ akErr = "nil") =>
        /\ Len(subnetAuthKeys) = threshold
        /\ NoDuplicates(subnetAuthKeys)
        /\ Range(subnetAuthKeys) \subseteq Range(controlKeys)
        /\ walletKey \in Range(controlKeys) => walletKey \in Range(subnetAuthKeys)
        /\ CheckSubnetAuthKeys(walletKey, subnetAuthKeys, controlKeys, threshold) = "nil"

\* the wallet key is the second of three control keys and one more key was
\* chosen at the prompt
C24_Witness ==
    /\ akpc = "returned"
    /\ akErr = "nil"
    /\ controlKeys = <<"k1", "k2", "k3">>
    /\ walletKey = "k2"
    /\ threshold = 2
    /\ subnetAuthKeys = <<"k2", "k3">>
    /\ akPrompts = 1

\* C27: for a threshold between 0 and the number of control keys, no more
\* than threshold prompts are issued
C27_AtMostThresholdPrompts ==
    threshold <= Len(controlKeys) => akPrompts <= threshold

(***************************************************************************)
(* List decisions                                                          *)
(***************************************************************************)

\* C28: the list never holds an element twice and holds, in insertion order,
\* exactly the elements added and not since deleted; Done returns the list
\* with cancel = false, Cancel returns a nil list with cancel = true; Delete
\* on an empty list, Preview and More Info leave the list unchanged
C28_ListDecisions ==
    /\ [](/\ NoDuplicates(finalList)
          /\ Range(finalList) = {e \in ListElements : liveSince[e] > 0}
          /\ \A i, j \in DOMAIN finalList :
                i < j => liveSince[finalList[i]] < liveSince[finalList[j]]
          /\ (cldpc = "returned" /\ listDecision = Done) =>
                cldRet = CldReturn(finalList, FALSE, FALSE, "nil")
          /\ (cldpc = "returned" /\ listDecision = Cancel) =>
                cldRet = CldReturn(<<>>, TRUE, TRUE, "nil"))
    /\ [][(\/ listDecision' \in {Preview, MoreInfo}
           \/ listDecision' = Del /\ finalList = <<>>) => finalList' = finalList]_vars

\* a was added, then b, then a was deleted and added again, so that it
\* stands after b, and Done returned that list
C28_Witness ==
    /\ cldpc = "returned"
    /\ listDecision = Done
    /\ cldRet.list = <<"b", "a">>
    /\ finalList = <<"b", "a">>
    /\ liveSince["b"] = 2
    /\ liveSince["a"] = 4

(***************************************************************************)
(* Deleting a subnet                                                       *)
(***************************************************************************)

\* the files the command is to remove: genesis and sidecar, and the custom
\* VM binary of a custom VM
ApplicableFiles ==
    {GetGenesisPath(delSubnetName), GetSidecarPath(delSubnetName)} \cup
        (IF sidecarVM = "Custom" THEN {GetCustomVMPath(delSubnetName)} ELSE {})

\* C29: when deleteSubnet returns an error no file of the subnet has been
\* removed, and when it returns nil every applicable file has been removed
C29_DeleteAllOrNothing ==
    /\ (delpc = "returned" /\ delErr # "nil") => removedFiles = {}
    /\ (delpc = "returned" /\ delErr = "nil") => removedFiles = ApplicableFiles

(***************************************************************************)
(* Admin balances                                                          *)
(***************************************************************************)

\* C26: ensureAdminsHaveBalance returns no error exactly when the admin list
\* is empty or some admin has an allocation whose balance, as an
\* arbitrary-precision integer, is greater than zero
C26_AdminsHaveBalance ==
    eabRet \in {"nil", "error"} =>
        (eabRet = "nil" <=>
            \/ admins = <<>>
            \/ \E i \in DOMAIN admins :
                  /\ alloc[admins[i]].present
                  /\ IsPositive(alloc[admins[i]].Balance))

====
